---- MODULE Spec2Model ----
(***************************************************************************)
(* iterm-mcp: the Session Registry (SessionManager) driving the terminal   *)
(* application through the control channel (osascript), modelled as        *)
(* interleaved asynchronous flows.  A flow suspends at every channel call: *)
(* the terminal application answers the call in one step and the flow's    *)
(* continuation runs in a later step, so other flows (and the user closing *)
(* windows by hand) can act in between.                                    *)
(***************************************************************************)
EXTENDS Integers, Sequences, FiniteSets, TLC

VARIABLES
    sessionWindowMap,   \* SessionManager.sessionWindowMap: clientId -> windowId
    sessionPathMap,     \* SessionManager.sessionPathMap: clientId -> path, in insertion order
    sessionTabMap,      \* SessionManager.sessionTabMap: clientId -> SessionTabInfo
    tabAliases,         \* SessionManager.tabManager.tabAliases: windowId ->
                        \* (tabIndex -> alias), the inner map in insertion order
    windows,            \* the windows that exist in the terminal application
    nextWin,            \* the number the application gives its next window
    tabs,               \* per existing window: the names of its tabs, left to right
    selectedTab,        \* per existing window: the position of its current tab
    flow,               \* per flow: the operation it runs, its locals, its pending call
    abandoned,          \* the polling loops of executeCommand calls that a phase
                        \* timer has rejected: Promise.race leaves the loser running
    hist,               \* per flow: what happened during the call (observation only)
    lastCall            \* the last refreshSession that returned, while nothing has
                        \* come between it and now; the createSession or
                        \* focusOrCreateSessionForPath that returned while
                        \* another one is still running
                        \* (observation only)

vars == <<sessionWindowMap, sessionPathMap, sessionTabMap, tabAliases, windows,
          nextWin, tabs, selectedTab, flow, abandoned, hist, lastCall>>

\* the tables SessionManager holds, its TabManager's alias table included
registry == <<sessionWindowMap, sessionPathMap, sessionTabMap, tabAliases>>

----------------------------------------------------------------------------
(* Bounds and input sets *)

\* windows the application can open in one run of the sessions-by-path
\* specification
MaxPathWindows == 3

\* windows the application can open in one run
MaxWindows == 2

\* tabs a window can hold
MaxTabs == 2

\* tabs the window of the default session can hold in the specification of
\* its tabs
MaxSessionTabs == 3

\* the name the application gives the tab of a new shell
DefaultTabName == "zsh"

\* tab identifiers a caller passes: a number, or a string
IdNum(n) == [num |-> TRUE, n |-> n, s |-> ""]
IdStr(x) == [num |-> FALSE, n |-> 0, s |-> x]
TabIdentifiers == {IdNum(0), IdNum(1), IdStr("1"), IdStr("work")}

\* concurrent asynchronous flows (request handlers in flight)
Flows == {1, 2}

\* the process's working directory, which resolve() prepends to relative paths
Cwd == <<"a">>

\* project directories, as the names on the way from the root
Dirs == {<<"a", "b">>}

\* caller-supplied client ids ("default" is index.ts's unnamed session)
NamedClients == {"default"}

\* optional values: undefined / null is the empty sequence
None == <<>>
Some(x) == <<x>>
The(o) == o[1]

----------------------------------------------------------------------------
(* Paths: a path string is the sequence of its '/'-separated pieces, so    *)
(* "/a/b/" is <<"", "a", "b", "">> and the relative "b" is <<"b">>.        *)

Last(s) == s[Len(s)]
Front(s) == SubSeq(s, 1, Len(s) - 1)

\* the spellings of directory P: P, P/, P/../<basename>, P/.
Spell(P) == <<"">> \o P
SpellSlash(P) == <<"">> \o P \o <<"">>
SpellDotDot(P) == <<"">> \o P \o <<"..", Last(P)>>
SpellDot(P) == <<"">> \o P \o <<".">>

Spellings(P) == {Spell(P), SpellSlash(P), SpellDotDot(P), SpellDot(P)}

\* the empty string, and a path relative to the working directory
EmptyPath == <<"">>
RelativeB == <<"b">>

PathInputs == (UNION {Spellings(P) : P \in Dirs}) \cup {RelativeB}

\* a directory no session is ever created for
OtherPath == <<"", "a">>

RECURSIVE NormalizeSegs(_, _)
NormalizeSegs(segs, acc) ==
    IF segs = <<>> THEN acc
    ELSE LET s == Head(segs)
         IN  IF s = "" \/ s = "." THEN NormalizeSegs(Tail(segs), acc)
             ELSE IF s = ".."
                  THEN NormalizeSegs(Tail(segs), IF acc = <<>> THEN acc ELSE Front(acc))
                  ELSE NormalizeSegs(Tail(segs), Append(acc, s))

\* an absolute path starts with the separator
IsAbsolute(p) == Len(p) >= 2 /\ Head(p) = ""

\* a resolve that makes a path absolute and leaves its pieces as spelled
resolveAsSpelled(p) == IF IsAbsolute(p) THEN p ELSE <<"">> \o Cwd \o p

\* node:path resolve(p): absolute, "." and ".." resolved, no trailing separator
\* (the root alone is "/"); a relative path is taken from the working directory

resolve(p) ==
    LET names == IF IsAbsolute(p) THEN NormalizeSegs(p, <<>>) ELSE NormalizeSegs(p, Cwd)
    IN  IF names = <<>> THEN <<"", "">> ELSE <<"">> \o names

\* code of a path piece, for the digest
SegCode(s) == CASE s = "a" -> 97 [] s = "b" -> 98 [] OTHER -> 47

\* width of the digest kept in a client id (the code keeps 8 hex digits of an
\* md5; the model keeps fewer bits so that TLC's integers do not overflow)
HashBits == 16

RECURSIVE Pow2(_)
Pow2(n) == IF n = 0 THEN 1 ELSE 2 * Pow2(n - 1)

RECURSIVE Digest(_, _)
Digest(segs, h) ==
    IF segs = <<>> THEN h
    ELSE Digest(Tail(segs), (h * 31 + SegCode(Head(segs))) % Pow2(HashBits))

\* createHash('md5').update(normalizedPath).digest('hex').substring(0, 8):
\* a fixed-width content digest of the normalized path
getClientIdFromPath(path) == "path_" \o ToString(Digest(resolve(path), 7))

ClientIds == NamedClients \cup {getClientIdFromPath(Spell(P)) : P \in Dirs}

WinId(n) == "w" \o ToString(n)
WindowIds == {WinId(n) : n \in 1..MaxWindows}

----------------------------------------------------------------------------
(* Map helpers.  sessionWindowMap and sessionTabMap are functions on the   *)
(* set of their keys; sessionPathMap keeps Map's insertion order, which    *)
(* findSessionByPath's iteration depends on.                               *)

MapHas(m, k) == k \in DOMAIN m
MapGet(m, k) == IF k \in DOMAIN m THEN Some(m[k]) ELSE None
MapSet(m, k, v) == [x \in DOMAIN m \cup {k} |-> IF x = k THEN v ELSE m[x]]
MapDelete(m, k) == [x \in DOMAIN m \ {k} |-> m[x]]

OKeyIdx(m, k) == {i \in 1..Len(m) : m[i][1] = k}
OHas(m, k) == OKeyIdx(m, k) # {}
OGet(m, k) == IF OHas(m, k) THEN Some(m[CHOOSE i \in OKeyIdx(m, k) : TRUE][2]) ELSE None
OSet(m, k, v) ==
    IF OHas(m, k) THEN [i \in 1..Len(m) |-> IF m[i][1] = k THEN <<k, v>> ELSE m[i]]
    ELSE Append(m, <<k, v>>)
ODelete(m, k) == SelectSeq(m, LAMBDA e : e[1] # k)

hasSession(clientId) == MapHas(sessionWindowMap, clientId)
getWindowId(clientId) == MapGet(sessionWindowMap, clientId)
getSessionPath(clientId) == OGet(sessionPathMap, clientId)

\* the first client, in insertion order, whose recorded path is resolve(path)
findSessionByPath(path) ==
    LET hits == {i \in 1..Len(sessionPathMap) : sessionPathMap[i][2] = resolve(path)}
    IN  IF hits = {} THEN None
        ELSE Some(sessionPathMap[CHOOSE i \in hits : \A j \in hits : i <= j][1])

----------------------------------------------------------------------------
(* The control channel.  A call's answer is stdout (a sequence of tokens,  *)
(* "\n" the line end osascript prints) or an error.                        *)

NoResp == [state |-> "none", out |-> <<>>]
Pending == [state |-> "pending", out |-> <<>>]
Ok(out) == [state |-> "ok", out |-> out]
Err == [state |-> "err", out |-> <<>>]

IsSpace(t) == t = "\n" \/ t = " "

RECURSIVE TrimStart(_)
TrimStart(s) == IF s # <<>> /\ IsSpace(Head(s)) THEN TrimStart(Tail(s)) ELSE s

RECURSIVE TrimEnd(_)
TrimEnd(s) == IF s # <<>> /\ IsSpace(Last(s)) THEN TrimEnd(Front(s)) ELSE s

\* String.prototype.trim on the token sequence
Trim(s) == TrimEnd(TrimStart(s))

RECURSIVE Join(_)
Join(s) == IF s = <<>> THEN "" ELSE Head(s) \o Join(Tail(s))

\* the characters of the strings of the model (identifiers, names, aliases,
\* channel tokens); any other string of the model is a single character
Chars(s) ==
    CASE s = "" -> <<>>
      [] s = "zsh" -> <<"z", "s", "h">>
      [] s = "work" -> <<"w", "o", "r", "k">>
      [] s = "1x" -> <<"1", "x">>
      [] s = "a|b" -> <<"a", "|", "b">>
      [] s = "all" -> <<"a", "l", "l">>
      [] s = "All" -> <<"A", "l", "l">>
      [] s = "ALL" -> <<"A", "L", "L">>
      [] s = "sid" -> <<"s", "i", "d">>
      [] s = "tty" -> <<"t", "t", "y">>
      [] s = ", " -> <<",", " ">>
      [] OTHER -> <<s>>

IsDigit(ch) == \E n \in 0..9 : ToString(n) = ch
DigitVal(ch) == CHOOSE n \in 0..9 : ToString(n) = ch

\* the value of the longest run of digits at the head of cs
RECURSIVE ParseDigits(_, _)
ParseDigits(cs, acc) ==
    IF cs # <<>> /\ IsDigit(Head(cs))
    THEN ParseDigits(Tail(cs), acc * 10 + DigitVal(Head(cs)))
    ELSE acc

\* parseInt(text, 10): leading white space skipped, an optional sign, then the
\* longest run of digits, whatever follows it; none (NaN) without a digit
ParseInt(text) ==
    LET cs == TrimStart(Chars(text))
        signed == cs # <<>> /\ Head(cs) \in {"-", "+"}
        body == IF signed THEN Tail(cs) ELSE cs
    IN  IF body = <<>> \/ ~IsDigit(Head(body)) THEN None
        ELSE Some((IF signed /\ Head(cs) = "-" THEN 0 - 1 ELSE 1) * ParseDigits(body, 0))

Upper == <<"A", "B", "C", "D", "E", "F", "G", "H", "I", "J", "K", "L", "M",
           "N", "O", "P", "Q", "R", "S", "T", "U", "V", "W", "X", "Y", "Z">>
Lower == <<"a", "b", "c", "d", "e", "f", "g", "h", "i", "j", "k", "l", "m",
           "n", "o", "p", "q", "r", "s", "t", "u", "v", "w", "x", "y", "z">>

LowerChar(ch) ==
    IF \E i \in 1..Len(Upper) : Upper[i] = ch
    THEN Lower[CHOOSE i \in 1..Len(Upper) : Upper[i] = ch]
    ELSE ch

\* a toLowerCase that leaves the letters as they are
toLowerCaseKept(s) == Join(Chars(s))

\* String.prototype.toLowerCase
toLowerCase(s) == Join([i \in 1..Len(Chars(s)) |-> LowerChar(Chars(s)[i])])

\* a string as the channel carries it: the separators ", " and "|" listTabs
\* splits on stand as tokens of their own, the text between them as one token
RECURSIVE Tokens(_, _)
Tokens(cs, cur) ==
    LET flush == IF cur = "" THEN <<>> ELSE <<cur>>
    IN  IF cs = <<>> THEN flush
        ELSE IF Len(cs) >= 2 /\ cs[1] = "," /\ cs[2] = " "
             THEN flush \o <<", ">> \o Tokens(Tail(Tail(cs)), "")
             ELSE IF Head(cs) = "|"
                  THEN flush \o <<"|">> \o Tokens(Tail(cs), "")
                  ELSE Tokens(Tail(cs), cur \o Head(cs))

\* String.prototype.split on the token sequence
RECURSIVE SplitBy(_, _, _)
SplitBy(s, sep, cur) ==
    IF s = <<>> THEN <<cur>>
    ELSE IF Head(s) = sep THEN <<cur>> \o SplitBy(Tail(s), sep, <<>>)
         ELSE SplitBy(Tail(s), sep, Append(cur, Head(s)))

\* what the listTabs script prints: index|name|sessionId|tty, joined by ", "
RECURSIVE EncodeTabs(_, _)
EncodeTabs(names, i) ==
    IF names = <<>> THEN <<>>
    ELSE <<ToString(i), "|">> \o Tokens(Chars(Head(names)), "") \o <<"|", "sid", "|", "tty">>
         \o (IF Tail(names) = <<>> THEN <<>> ELSE <<", ">>)
         \o EncodeTabs(Tail(names), i + 1)

----------------------------------------------------------------------------
(* Flows *)

IdleFlow ==
    [op |-> "idle", pc |-> "idle", client |-> "", path |-> None, win |-> None,
     wdir |-> None, tabIndex |-> None, tabName |-> None, mode |-> "",
     tabId |-> None, alias |-> "", tabArg |-> None, todo |-> <<>>, closed |-> 0,
     timeoutMs |-> 0, elapsed |-> 0, phaseStart |-> 0, budgetMs |-> None,
     inputTimeout |-> 0, wake |-> 0, belowThresholdTime |-> 0, before |-> 0,
     errMs |-> 0, errWin |-> None, command |-> <<>>, returnOutputLines |-> 0,
     newLines |-> 0, output |-> None, after |-> <<>>,
     resp |-> NoResp, status |-> "idle", result |-> "", err |-> ""]

NoEntries == [w |-> None, p |-> None, t |-> None]

\* what is observed of a call.  made: windows it had the application open;
\* calls: channel calls it issued; closedBy: who closed the window its last
\* answer vouches for (the window answered to exist, the window just created)
\* since that answer; exists: the channel's answer to its existence check;
\* entry0: the client's registry entries when the call started; raw: the path
\* string the caller passed; issued: the kinds of channel call it issued;
\* aliases0, tabs0: the alias table and the tabs of the call's window when the
\* call started; flag: the answers to its "is processing" polls it has taken;
\* inspected: the answers to its Process Activity Inspector polls it has taken;
\* quiet: how many of the latest of them in a row read below 1% CPU;
\* script: the write text script it ran; reads, writes: how many "get contents"
\* and write text calls it issued; addressed: the tabs its channel calls were
\* answered for; target0: the tab its session target named when it started;
\* failed: the channel call of it that failed, with the channel's error text
NoHist == [made |-> {}, calls |-> 0, closedBy |-> "", exists |-> "",
           entry0 |-> NoEntries, raw |-> None, issued |-> {},
           aliases0 |-> <<>>, tabs0 |-> <<>>, flag |-> {},
           inspected |-> {}, quiet |-> 0, script |-> None, reads |-> 0, writes |-> 0,
           addressed |-> {}, target0 |-> "", failed |-> None]

\* the registry entries of a client
Entries(clientId) ==
    [w |-> getWindowId(clientId), p |-> getSessionPath(clientId),
     t |-> MapGet(sessionTabMap, clientId)]

\* lastCall across the start of operation op for clientId: a refreshSession
\* that follows a returned refreshSession of the same client keeps it
KeepLast(op, clientId) ==
    IF op = "refreshSession" /\ lastCall # None
       /\ The(lastCall).op = "refreshSession" /\ The(lastCall).client = clientId
    THEN lastCall ELSE None

Init ==
    /\ sessionWindowMap = <<>>
    /\ sessionPathMap = <<>>
    /\ sessionTabMap = <<>>
    /\ tabAliases = <<>>
    /\ windows = {}
    /\ nextWin = 1
    /\ tabs = <<>>
    /\ selectedTab = <<>>
    /\ flow = [f \in Flows |-> IdleFlow]
    /\ abandoned = <<>>
    /\ hist = [f \in Flows |-> NoHist]
    /\ lastCall = None

\* a call's outcome is taken by its caller before anything else happens
NoneDone == \A f \in Flows : flow[f].status \in {"idle", "running"}

Idle(f) == NoneDone /\ flow[f].op = "idle"
Awaiting(f, pc) == NoneDone /\ flow[f].pc = pc /\ flow[f].resp.state = "pending"
Answered(f, pc) == NoneDone /\ flow[f].pc = pc /\ flow[f].resp.state \in {"ok", "err"}

\* the flow starts operation op and suspends on its first channel call
Begin(f, op, pc, clientId, path, win, wdir, raw) ==
    /\ flow' = [flow EXCEPT ![f] =
                   [IdleFlow EXCEPT !.op = op, !.pc = pc, !.client = clientId,
                                    !.path = path, !.win = win, !.wdir = wdir,
                                    !.resp = Pending, !.status = "running"]]
    /\ hist' = [hist EXCEPT ![f] = [NoHist EXCEPT !.calls = 1, !.raw = raw,
                                                    !.issued = {pc},
                                                    !.entry0 = Entries(clientId)]]
    /\ lastCall' = KeepLast(op, clientId)

\* the flow starts operation op and completes without any channel call
BeginDone(f, op, clientId, path, result, raw) ==
    /\ flow' = [flow EXCEPT ![f] =
                   [IdleFlow EXCEPT !.op = op, !.pc = "done", !.client = clientId,
                                    !.path = path, !.status = "returned",
                                    !.result = result]]
    /\ hist' = [hist EXCEPT ![f] = [NoHist EXCEPT !.raw = raw,
                                                    !.entry0 = Entries(clientId)]]
    /\ lastCall' = KeepLast(op, clientId)

\* the continuation issues the next channel call
Await(f, pc, clientId, wdir) ==
    /\ flow' = [flow EXCEPT ![f] = [@ EXCEPT !.pc = pc, !.client = clientId,
                                               !.wdir = wdir, !.resp = Pending]]
    /\ hist' = [hist EXCEPT ![f] = [@ EXCEPT !.calls = @ + 1, !.closedBy = "",
                                              !.issued = @ \cup {pc}]]
    /\ UNCHANGED lastCall

\* the call resolves with result
Return(f, result) ==
    /\ flow' = [flow EXCEPT ![f] = [@ EXCEPT !.pc = "done", !.status = "returned",
                                               !.result = result]]
    /\ UNCHANGED <<hist, lastCall>>

\* the call rejects with an error of class err
Throw(f, err) ==
    /\ flow' = [flow EXCEPT ![f] = [@ EXCEPT !.pc = "done", !.status = "threw",
                                               !.err = err]]
    /\ UNCHANGED <<hist, lastCall>>

----------------------------------------------------------------------------
(* SessionManager: what each operation decides from a channel answer, and  *)
(* what it writes to the three tables.                                     *)

\* a validateWindow that takes a failed existence check for a live window
validateWindowResultFailOpen(resp) ==
    resp.state = "err" \/ Join(Trim(resp.out)) = "true"

\* a validateWindow that compares the answer without trimming it
validateWindowResultUntrimmed(resp) == resp.state = "ok" /\ Join(resp.out) = "true"

\* validateWindow: true only for an answered "true"; any error is false
validateWindowResult(resp) == resp.state = "ok" /\ Join(Trim(resp.out)) = "true"

\* getActiveWindowId: the trimmed id, null for an empty answer or an error
getActiveWindowIdResult(resp) ==
    IF resp.state = "ok" /\ Trim(resp.out) # <<>> THEN Some(Join(Trim(resp.out))) ELSE None

\* a createSession that takes whatever the channel answered for an id
createdWindowIdUnchecked(resp) ==
    IF resp.state = "ok" THEN Some(Join(Trim(resp.out))) ELSE None

\* createSession: the trimmed id of the new window; none if the call failed
\* or answered nothing usable
createdWindowId(resp) ==
    IF resp.state = "ok" /\ Trim(resp.out) # <<>> THEN Some(Join(Trim(resp.out))) ELSE None

\* a createSession that writes the window table anew with its own entry
createSessionMapsAnew(clientId, windowId, workingDir) ==
    [w |-> MapSet(<<>>, clientId, windowId),
     p |-> IF workingDir # None
           THEN OSet(sessionPathMap, clientId, resolve(The(workingDir)))
           ELSE sessionPathMap,
     t |-> sessionTabMap]

\* createSession's writes for a created window: the window entry, and the
\* path entry when a working directory was given
createSessionMaps(clientId, windowId, workingDir) ==
    [w |-> MapSet(sessionWindowMap, clientId, windowId),
     p |-> IF workingDir # None
           THEN OSet(sessionPathMap, clientId, resolve(The(workingDir)))
           ELSE sessionPathMap,
     t |-> sessionTabMap]

\* an endSession that forgets the path entry
endSessionMapsKeepPath(clientId) ==
    [w |-> MapDelete(sessionWindowMap, clientId),
     p |-> sessionPathMap,
     t |-> MapDelete(sessionTabMap, clientId)]

\* an endSession that also drops the current-tab records of the other clients
endSessionMapsClearTabs(clientId) ==
    [w |-> MapDelete(sessionWindowMap, clientId),
     p |-> ODelete(sessionPathMap, clientId),
     t |-> <<>>]

\* endSession's cleanup, the same on both branches of its try
endSessionMaps(clientId) ==
    [w |-> MapDelete(sessionWindowMap, clientId),
     p |-> ODelete(sessionPathMap, clientId),
     t |-> MapDelete(sessionTabMap, clientId)]

\* refreshSession's removal of a stale window
refreshStaleMaps(clientId) ==
    [w |-> MapDelete(sessionWindowMap, clientId),
     p |-> ODelete(sessionPathMap, clientId),
     t |-> MapDelete(sessionTabMap, clientId)]

\* focusOrCreateSessionForPath's removal of a stale window (the tab entry stays)
focusStaleMaps(clientId) ==
    [w |-> MapDelete(sessionWindowMap, clientId),
     p |-> ODelete(sessionPathMap, clientId),
     t |-> sessionTabMap]

\* TabManager.listTabs: the records parsed from the answer
listTabsResult(resp) ==
    LET tabData == Trim(resp.out)
        tabStrings == IF tabData = <<>> THEN <<>> ELSE SplitBy(tabData, ", ", <<>>)
    IN  [i \in 1..Len(tabStrings) |->
            LET fields == SplitBy(tabStrings[i], "|", <<>>)
                index == ParseInt(Join(fields[1]))
            IN  [index |-> index,
                 name |-> IF Len(fields) >= 2 /\ Join(fields[2]) # ""
                          THEN Join(fields[2])
                          ELSE "Tab " \o (IF index = None THEN "NaN"
                                          ELSE ToString(The(index) + 1))]]

\* TabManager.getTabIndex: the index of the first listed tab named tabName
getTabIndex(listed, tabName) ==
    LET hits == {i \in 1..Len(listed) : listed[i].name = tabName}
    IN  IF hits = {} THEN None
        ELSE listed[CHOOSE i \in hits : \A j \in hits : i <= j].index

\* TabManager.createTab: the index parsed from the answer, none if unusable
createTabResult(resp) ==
    IF resp.state = "ok" THEN ParseInt(Join(Trim(resp.out))) ELSE None

\* a focusOrCreateTab that keeps no record of the tab it focused
focusTabMapsUnrecorded(clientId, windowId, tabIndex, tabName) ==
    [w |-> sessionWindowMap, p |-> sessionPathMap, t |-> sessionTabMap]

\* focusOrCreateTab's record of the client's current tab
focusTabMaps(clientId, windowId, tabIndex, tabName) ==
    [w |-> sessionWindowMap,
     p |-> sessionPathMap,
     t |-> MapSet(sessionTabMap, clientId,
                  [windowId |-> windowId, tabIndex |-> tabIndex, tabName |-> tabName])]

\* the aliases recorded for a window, in insertion order
windowAliases(windowId) ==
    IF MapHas(tabAliases, windowId) THEN tabAliases[windowId] ELSE <<>>

\* TabManager.setTabAlias: the alias table after the call
TabManager_setTabAlias(windowId, tabIndex, alias) ==
    MapSet(tabAliases, windowId, OSet(windowAliases(windowId), tabIndex, alias))

\* TabManager.getTabIndexByAlias: the index of the first entry, in insertion
\* order, that carries the alias
getTabIndexByAlias(windowId, alias) ==
    LET m == windowAliases(windowId)
        hits == {i \in 1..Len(m) : m[i][2] = alias}
    IN  IF hits = {} THEN None
        ELSE Some(m[CHOOSE i \in hits : \A j \in hits : i <= j][1])

\* TabManager.resolveTabIndex before its getTabIndex call: a number, a string
\* parseInt reads a number from, an alias; none when the name lookup is needed
resolveTabIndexSync(windowId, tabIdentifier) ==
    IF tabIdentifier.num THEN Some(tabIdentifier.n)
    ELSE IF ParseInt(tabIdentifier.s) # None THEN ParseInt(tabIdentifier.s)
         ELSE getTabIndexByAlias(windowId, tabIdentifier.s)

\* closeSessionTab's record of the client's current tab after the tracked tab
\* was closed
closeSessionTabMaps(clientId, windowId, resp) ==
    IF resp.state = "ok" /\ Len(listTabsResult(resp)) > 0
    THEN MapSet(sessionTabMap, clientId,
                [windowId |-> windowId, tabIndex |-> 0, tabName |-> None])
    ELSE MapDelete(sessionTabMap, clientId)

\* the three session tables become m; the alias table is not written
SetRegistry(m) ==
    /\ sessionWindowMap' = m.w
    /\ sessionPathMap' = m.p
    /\ sessionTabMap' = m.t
    /\ UNCHANGED tabAliases

\* what is outside the SessionManager: the terminal application, and the
\* polling loops left running in the event loop
app == <<windows, nextWin, tabs, selectedTab, abandoned>>

----------------------------------------------------------------------------
(* Operations: the synchronous part up to the first channel call *)

\* a working directory argument: absent, or a path string ("" counts as absent)
WorkingDirArg(p) == IF p = None \/ The(p) = EmptyPath THEN None ELSE p

createSession(f, clientId, workingDir) ==
    /\ Idle(f)
    /\ Begin(f, "createSession", "create", clientId, None, None,
             WorkingDirArg(workingDir), workingDir)
    /\ UNCHANGED <<registry, app>>

\* an endSession without the early return for a client that has no session
endSessionUnguarded(f, clientId) ==
    /\ Idle(f)
    /\ Begin(f, "endSession", "close", clientId, None, getWindowId(clientId), None, None)
    /\ UNCHANGED <<registry, app>>

endSession(f, clientId) ==
    /\ Idle(f)
    /\ IF hasSession(clientId)
       THEN Begin(f, "endSession", "close", clientId, None, getWindowId(clientId), None,
                  None)
       ELSE BeginDone(f, "endSession", clientId, None, "void", None)
    /\ UNCHANGED <<registry, app>>

\* a refreshSession that does not carry the recorded working path over to the
\* session it creates
refreshSessionForgetsPath(f, clientId) ==
    /\ Idle(f)
    /\ IF hasSession(clientId)
       THEN Begin(f, "refreshSession", "validate", clientId, None, getWindowId(clientId),
                  None, None)
       ELSE Begin(f, "refreshSession", "create", clientId, None, None, None, None)
    /\ UNCHANGED <<registry, app>>

refreshSession(f, clientId) ==
    /\ Idle(f)
    /\ IF hasSession(clientId)
       THEN Begin(f, "refreshSession", "validate", clientId, None, getWindowId(clientId),
                  getSessionPath(clientId), None)
       ELSE Begin(f, "refreshSession", "create", clientId, None, None,
                  getSessionPath(clientId), None)
    /\ UNCHANGED <<registry, app>>

\* index.ts, "all other tools" and focus_terminal_window without a path: the
\* default session is refreshed inside a try whose catch falls back to the
\* active window
resolveDefaultSession(f) ==
    /\ Idle(f)
    /\ IF hasSession("default")
       THEN Begin(f, "resolveDefaultSession", "validate", "default", None,
                  getWindowId("default"), getSessionPath("default"), None)
       ELSE Begin(f, "resolveDefaultSession", "create", "default", None, None,
                  getSessionPath("default"), None)
    /\ UNCHANGED <<registry, app>>

focusOrCreateSessionForPath(f, path) ==
    /\ Idle(f)
    /\ LET normalizedPath == resolve(path)
           existingClientId == findSessionByPath(normalizedPath)
       IN  IF existingClientId # None /\ hasSession(The(existingClientId))
           THEN Begin(f, "focusOrCreateSessionForPath", "validate", The(existingClientId),
                      Some(normalizedPath), getWindowId(The(existingClientId)),
                      Some(normalizedPath), Some(path))
           ELSE Begin(f, "focusOrCreateSessionForPath", "create",
                      getClientIdFromPath(normalizedPath), Some(normalizedPath), None,
                      Some(normalizedPath), Some(path))
    /\ UNCHANGED <<registry, app>>

endSessionByPath(f, path) ==
    /\ Idle(f)
    /\ LET normalizedPath == resolve(path)
           clientId == findSessionByPath(normalizedPath)
       IN  IF clientId = None
           THEN BeginDone(f, "endSessionByPath", "", Some(normalizedPath), "false",
                          Some(path))
           ELSE IF hasSession(The(clientId))
                THEN Begin(f, "endSessionByPath", "close", The(clientId),
                           Some(normalizedPath), getWindowId(The(clientId)), None,
                           Some(path))
                ELSE BeginDone(f, "endSessionByPath", The(clientId),
                               Some(normalizedPath), "true", Some(path))
    /\ UNCHANGED <<registry, app>>

validateWindow(f, windowId) ==
    /\ Idle(f)
    /\ Begin(f, "validateWindow", "validate", "", None, Some(windowId), None, None)
    /\ UNCHANGED <<registry, app>>

getActiveWindowId(f) ==
    /\ Idle(f)
    /\ Begin(f, "getActiveWindowId", "active", "", None, None, None, None)
    /\ UNCHANGED <<registry, app>>

\* focusOrCreateTab suspends on a tab call with these locals
BeginTab(f, pc, clientId, windowId, mode, tabIndex, tabName) ==
    /\ flow' = [flow EXCEPT ![f] =
                   [IdleFlow EXCEPT !.op = "focusOrCreateTab", !.pc = pc,
                                    !.client = clientId, !.win = Some(windowId),
                                    !.mode = mode, !.tabIndex = tabIndex,
                                    !.tabName = tabName, !.resp = Pending,
                                    !.status = "running"]]
    /\ hist' = [hist EXCEPT ![f] = [NoHist EXCEPT !.calls = 1, !.issued = {pc},
                                                    !.entry0 = Entries(clientId),
                                                    !.aliases0 = tabAliases,
                                                    !.tabs0 = IF MapHas(tabs, windowId)
                                                              THEN tabs[windowId]
                                                              ELSE <<>>]]
    /\ lastCall' = None

BeginThrow(f, op, clientId, err) ==
    /\ flow' = [flow EXCEPT ![f] =
                   [IdleFlow EXCEPT !.op = op, !.pc = "done", !.client = clientId,
                                    !.status = "threw", !.err = err]]
    /\ hist' = [hist EXCEPT ![f] = [NoHist EXCEPT !.entry0 = Entries(clientId)]]
    /\ lastCall' = None

\* tabIdentifier: none (undefined) or an identifier
focusOrCreateTab(f, clientId, tabIdentifier) ==
    /\ Idle(f)
    /\ LET windowId == getWindowId(clientId)
           currentTabInfo == MapGet(sessionTabMap, clientId)
       IN  IF windowId = None THEN BeginThrow(f, "focusOrCreateTab", clientId, "NoSession")
           ELSE IF tabIdentifier = None
           THEN IF currentTabInfo # None
                THEN BeginTab(f, "select", clientId, The(windowId), "current",
                              Some(The(currentTabInfo).tabIndex), None)
                ELSE BeginTab(f, "select", clientId, The(windowId), "default", Some(0), None)
           ELSE LET id == The(tabIdentifier)
                IN  IF id.num
                    THEN BeginTab(f, "select", clientId, The(windowId), "target",
                                  Some(id.n), None)
                    ELSE IF ParseInt(id.s) # None
                         THEN BeginTab(f, "select", clientId, The(windowId), "target",
                                       ParseInt(id.s), None)
                         ELSE BeginTab(f, "list", clientId, The(windowId), "target",
                                       None, Some(id.s))
    /\ UNCHANGED <<registry, app>>

\* a tab operation starts in flow state rec: suspended on its first channel
\* call, or already complete
StartTabOp(f, rec, windowId) ==
    /\ flow' = [flow EXCEPT ![f] = rec]
    /\ hist' = [hist EXCEPT ![f] =
                   [NoHist EXCEPT !.calls = IF rec.status = "running" THEN 1 ELSE 0,
                                  !.issued = IF rec.status = "running" THEN {rec.pc} ELSE {},
                                  !.entry0 = Entries(rec.client),
                                  !.aliases0 = tabAliases,
                                  !.tabs0 = IF windowId # None /\ MapHas(tabs, The(windowId))
                                            THEN tabs[The(windowId)] ELSE <<>>]]
    /\ lastCall' = None

\* a tab operation goes on in flow state rec: suspended on its next channel
\* call, or complete
ContinueTabOp(f, rec) ==
    /\ flow' = [flow EXCEPT ![f] = rec]
    /\ hist' = [hist EXCEPT ![f] =
                   IF rec.status = "running"
                   THEN [@ EXCEPT !.calls = @ + 1, !.issued = @ \cup {rec.pc},
                                  !.closedBy = ""]
                   ELSE @]
    /\ UNCHANGED lastCall

Suspended(rec, pc) == [rec EXCEPT !.pc = pc, !.resp = Pending, !.status = "running"]
Returning(rec, result) ==
    [rec EXCEPT !.pc = "done", !.resp = NoResp, !.status = "returned", !.result = result]
Throwing(rec, err) ==
    [rec EXCEPT !.pc = "done", !.resp = NoResp, !.status = "threw", !.err = err]

\* TabManager.resolveTabIndex called on its own
resolveTabIndex(f, windowId, tabIdentifier) ==
    /\ Idle(f)
    /\ LET rec == [IdleFlow EXCEPT !.op = "resolveTabIndex", !.win = Some(windowId),
                                   !.tabId = Some(tabIdentifier)]
           index == resolveTabIndexSync(windowId, tabIdentifier)
       IN  StartTabOp(f, IF index # None THEN Returning(rec, ToString(The(index)))
                         ELSE Suspended(rec, "resolve"), Some(windowId))
    /\ UNCHANGED <<registry, app>>

\* TabManager.ensureTab called on its own
ensureTab(f, windowId, tabName) ==
    /\ Idle(f)
    /\ StartTabOp(f, Suspended([IdleFlow EXCEPT !.op = "ensureTab",
                                                !.win = Some(windowId),
                                                !.tabName = Some(tabName)], "list"),
                  Some(windowId))
    /\ UNCHANGED <<registry, app>>

\* SessionManager.setTabAlias
setTabAlias(f, clientId, tabIdentifier, alias) ==
    /\ Idle(f)
    /\ LET windowId == getWindowId(clientId)
           rec == [IdleFlow EXCEPT !.op = "setTabAlias", !.client = clientId,
                                   !.win = windowId, !.tabId = Some(tabIdentifier),
                                   !.alias = alias]
       IN  IF windowId = None
           THEN StartTabOp(f, Throwing(rec, "NoSession"), None) /\ UNCHANGED tabAliases
           ELSE LET index == resolveTabIndexSync(The(windowId), tabIdentifier)
                IN  IF index # None
                    THEN /\ StartTabOp(f, Returning([rec EXCEPT !.tabIndex = index], "void"),
                                       windowId)
                         /\ tabAliases' = TabManager_setTabAlias(The(windowId),
                                                                 The(index), alias)
                    ELSE /\ StartTabOp(f, Suspended(rec, "resolve"), windowId)
                         /\ UNCHANGED tabAliases
    /\ UNCHANGED <<sessionWindowMap, sessionPathMap, sessionTabMap, app>>

\* closeSessionTab up to its first channel call, for the flow locals in rec
closeSessionTabStart(rec, windowId, tabIdentifier) ==
    LET index == resolveTabIndexSync(windowId, tabIdentifier)
        r == [rec EXCEPT !.win = Some(windowId), !.tabId = Some(tabIdentifier),
                         !.tabIndex = index]
    IN  IF index # None THEN Suspended(r, "closeTab") ELSE Suspended(r, "resolve")

\* SessionManager.closeSessionTab
closeSessionTab(f, clientId, tabIdentifier) ==
    /\ Idle(f)
    /\ LET windowId == getWindowId(clientId)
           rec == [IdleFlow EXCEPT !.op = "closeSessionTab", !.client = clientId]
       IN  IF windowId = None
           THEN StartTabOp(f, Throwing(rec, "NoSession"), None)
           ELSE StartTabOp(f, closeSessionTabStart(rec, The(windowId), tabIdentifier),
                           windowId)
    /\ UNCHANGED <<registry, app>>

\* the tabs argument of closeTabs: one string, or a list of strings
TabsString(x) == [isArray |-> FALSE, s |-> x, list |-> <<>>]
TabsArray(l) == [isArray |-> TRUE, s |-> "", list |-> l]

\* closeTabs at the head of its loop over the identifiers in todo, closed of
\* which were closed so far: the next closeSessionTab, or the result
RECURSIVE closeTabsLoop(_, _, _)
closeTabsLoop(rec, todo, closed) ==
    IF todo = <<>>
    THEN Returning([rec EXCEPT !.todo = <<>>, !.closed = closed],
                   IF closed > 0 THEN "true" ELSE "false")
    ELSE LET windowId == getWindowId(rec.client)
         IN  IF windowId = None THEN closeTabsLoop(rec, Tail(todo), closed)
             ELSE closeSessionTabStart([rec EXCEPT !.todo = Tail(todo),
                                                   !.closed = closed],
                                       The(windowId), IdStr(Head(todo)))

\* closeTabs for the client found, as operation op
closeTabsFor(f, op, clientId, tabArg) ==
    LET windowId == getWindowId(clientId)
        rec == [IdleFlow EXCEPT !.op = op, !.client = clientId, !.win = windowId,
                                !.tabArg = Some(tabArg)]
    IN  IF windowId = None
        THEN StartTabOp(f, Returning(rec, "false"), None)
        ELSE IF ~tabArg.isArray /\ toLowerCase(tabArg.s) = "all"
             THEN StartTabOp(f, Suspended(rec, "close"), windowId)
             ELSE StartTabOp(f, closeTabsLoop(rec, IF tabArg.isArray THEN tabArg.list
                                                   ELSE <<tabArg.s>>, 0),
                             windowId)

\* SessionManager.closeTabs
closeTabs(f, clientId, tabArg) ==
    /\ Idle(f)
    /\ closeTabsFor(f, "closeTabs", clientId, tabArg)
    /\ UNCHANGED <<registry, app>>

\* SessionManager.closeTabsByPath
closeTabsByPath(f, path, tabArg) ==
    /\ Idle(f)
    /\ LET clientId == findSessionByPath(resolve(path))
       IN  IF clientId = None
           THEN StartTabOp(f, Returning([IdleFlow EXCEPT !.op = "closeTabsByPath"],
                                        "false"), None)
           ELSE closeTabsFor(f, "closeTabsByPath", The(clientId), tabArg)
    /\ UNCHANGED <<registry, app>>

----------------------------------------------------------------------------
(* The terminal application answering a pending channel call *)

\* the window flow g's unconsumed answer vouches for, if any
Vouched(g) ==
    IF flow[g].status = "running" /\ flow[g].resp.state = "ok"
    THEN IF flow[g].pc = "validate" /\ Join(Trim(flow[g].resp.out)) = "true"
         THEN flow[g].win
         ELSE IF flow[g].pc = "create" /\ Trim(flow[g].resp.out) # <<>>
              THEN Some(Join(Trim(flow[g].resp.out)))
              ELSE None
    ELSE None

NoteClosed(w, who, except) ==
    hist' = [g \in Flows |->
               IF g \notin except /\ Vouched(g) = Some(w) /\ hist[g].closedBy = ""
               THEN [hist[g] EXCEPT !.closedBy = who]
               ELSE hist[g]]

Answer(f, resp) == flow' = [flow EXCEPT ![f].resp = resp]

CloseInApp(w) ==
    /\ windows' = windows \ {w}
    /\ tabs' = MapDelete(tabs, w)
    /\ selectedTab' = MapDelete(selectedTab, w)
    /\ lastCall' = IF lastCall # None /\ The(lastCall).result = w THEN None ELSE lastCall
    /\ UNCHANGED <<nextWin, abandoned>>

\* "create window with default profile ... return id as string"
AppCreateWindowUpTo(f, n) ==
    /\ Awaiting(f, "create")
    /\ nextWin <= n
    /\ LET w == WinId(nextWin)
       IN  /\ windows' = windows \cup {w}
           /\ tabs' = MapSet(tabs, w, <<DefaultTabName>>)
           /\ selectedTab' = MapSet(selectedTab, w, 1)
           /\ nextWin' = nextWin + 1
           /\ UNCHANGED abandoned
           /\ Answer(f, Ok(<<w, "\n">>))
           /\ hist' = [hist EXCEPT ![f].made = @ \cup {w}]
    /\ UNCHANGED <<registry, lastCall>>

AppCreateWindow(f) == AppCreateWindowUpTo(f, MaxWindows)

\* the application answers the create call with no usable identifier
AppCreateNothing(f) ==
    /\ Awaiting(f, "create")
    /\ Answer(f, Ok(<<"\n">>))
    /\ UNCHANGED <<registry, app, hist, lastCall>>

\* "tell window id w to close"
AppCloseWindow(f) ==
    /\ Awaiting(f, "close")
    /\ flow[f].win # None
    /\ The(flow[f].win) \in windows
    /\ CloseInApp(The(flow[f].win))
    /\ Answer(f, Ok(<<>>))
    /\ NoteClosed(The(flow[f].win), "program", {f})
    /\ UNCHANGED registry

\* "tell window id w to get exists"
AppExists(f) ==
    /\ Awaiting(f, "validate")
    /\ LET answer == IF The(flow[f].win) \in windows THEN "true" ELSE "false"
       IN  /\ Answer(f, Ok(<<answer, "\n">>))
           /\ hist' = [hist EXCEPT ![f].exists = answer]
    /\ UNCHANGED <<registry, app, lastCall>>

\* "tell current window to get id as string": the current window is
\* whichever window the user has in front
AppActiveWindow(f) ==
    /\ Awaiting(f, "active")
    /\ \/ \E w \in windows : Answer(f, Ok(<<w, "\n">>))
       \/ windows = {} /\ Answer(f, Ok(<<"\n">>))
    /\ UNCHANGED <<registry, app, hist, lastCall>>

\* "tell window id w to tell tab i+1 to select"
AppSelectTab(f) ==
    /\ Awaiting(f, "select")
    /\ The(flow[f].win) \in windows
    /\ The(flow[f].tabIndex) + 1 \in 1..Len(tabs[The(flow[f].win)])
    /\ selectedTab' = [selectedTab EXCEPT ![The(flow[f].win)] = The(flow[f].tabIndex) + 1]
    /\ Answer(f, Ok(<<>>))
    /\ UNCHANGED <<registry, windows, nextWin, tabs, abandoned, hist, lastCall>>

\* the channel calls that run the listTabs script: ensureTab's and
\* resolveTabIndex's getTabIndex, closeSessionTab's listTabs
ListCalls == {"list", "resolve", "relist"}

\* the listTabs script
AppListTabs(f) ==
    /\ \E pc \in ListCalls : Awaiting(f, pc)
    /\ The(flow[f].win) \in windows
    /\ Answer(f, Ok(EncodeTabs(tabs[The(flow[f].win)], 0) \o <<"\n">>))
    /\ UNCHANGED <<registry, app, hist, lastCall>>

\* "create tab ...; set tabIndex to (count of tabs) - 1; set name; return
\* tabIndex": the new tab is put last and becomes the current one
AppCreateTabUpTo(f, n) ==
    /\ Awaiting(f, "createTab")
    /\ The(flow[f].win) \in windows
    /\ Len(tabs[The(flow[f].win)]) < n
    /\ LET w == The(flow[f].win)
           name == IF flow[f].tabName = None \/ The(flow[f].tabName) = ""
                   THEN DefaultTabName ELSE The(flow[f].tabName)
       IN  /\ tabs' = [tabs EXCEPT ![w] = Append(@, name)]
           /\ selectedTab' = [selectedTab EXCEPT ![w] = Len(tabs[w]) + 1]
           /\ Answer(f, Ok(<<ToString(Len(tabs[w])), "\n">>))
    /\ UNCHANGED <<registry, windows, nextWin, abandoned, hist, lastCall>>

AppCreateTab(f) == AppCreateTabUpTo(f, MaxTabs)

\* the sequence s without its element at position i
RemoveAt(s, i) == [j \in 1..(Len(s) - 1) |-> IF j < i THEN s[j] ELSE s[j + 1]]

\* "tell window id w to tell tab i+1 to close": the tabs behind the closed one
\* move up by one and the current tab stays the current one, its neighbour
\* taking over when it is the one closed; a window closes with its last tab
AppCloseTab(f) ==
    /\ Awaiting(f, "closeTab")
    /\ The(flow[f].win) \in windows
    /\ The(flow[f].tabIndex) + 1 \in 1..Len(tabs[The(flow[f].win)])
    /\ LET w == The(flow[f].win)
           rest == RemoveAt(tabs[w], The(flow[f].tabIndex) + 1)
       IN  IF rest # <<>>
           THEN /\ tabs' = [tabs EXCEPT ![w] = rest]
                /\ selectedTab' = [selectedTab EXCEPT ![w] =
                                      IF The(flow[f].tabIndex) + 1 < @ THEN @ - 1
                                      ELSE IF @ > Len(rest) THEN Len(rest) ELSE @]
                /\ UNCHANGED <<windows, nextWin, abandoned, lastCall, hist>>
           ELSE /\ CloseInApp(w)
                /\ NoteClosed(w, "program", {f})
    /\ Answer(f, Ok(<<>>))
    /\ UNCHANGED registry

\* any call may fail: the application is not running, the window is gone, ...
AppError(f) ==
    /\ NoneDone
    /\ flow[f].resp.state = "pending"
    /\ Answer(f, Err)
    /\ hist' = [hist EXCEPT ![f].exists = IF flow[f].pc = "validate" THEN "err" ELSE @]
    /\ UNCHANGED <<registry, app, lastCall>>

\* the user closes a window by hand
UserCloseWindow(w) ==
    /\ NoneDone
    /\ w \in windows
    /\ CloseInApp(w)
    /\ NoteClosed(w, "user", {})
    /\ UNCHANGED <<registry, flow>>

----------------------------------------------------------------------------
(* Continuations: the flow resumes with the channel's answer *)

\* a handler that catches every failed creation with the active window
fallsBackAlways(op) == TRUE

\* the caller catches a failed creation and asks for the active window:
\* index.ts does for the default session, not for a session addressed by path
fallsBack(op) == op = "resolveDefaultSession"

\* createSession after its await, also as the tail of refreshSession and of
\* focusOrCreateSessionForPath
resumeCreateSession(f) ==
    /\ Answered(f, "create")
    /\ LET windowId == createdWindowId(flow[f].resp)
       IN  IF windowId = None
           THEN /\ IF fallsBack(flow[f].op)
                   THEN Await(f, "active", flow[f].client, flow[f].wdir)
                   ELSE Throw(f, "CreationFailed")
                /\ UNCHANGED registry
           ELSE /\ SetRegistry(createSessionMaps(flow[f].client, The(windowId), flow[f].wdir))
                /\ Return(f, The(windowId))
    /\ UNCHANGED app

\* endSession after its await (both branches of the try), also inside
\* endSessionByPath and closeTabs, which then report success
resumeEndSession(f) ==
    /\ Answered(f, "close")
    /\ SetRegistry(endSessionMaps(flow[f].client))
    /\ Return(f, IF flow[f].op = "endSession" THEN "void" ELSE "true")
    /\ UNCHANGED app

resumeRefreshSession(f) ==
    /\ Answered(f, "validate")
    /\ flow[f].op \in {"refreshSession", "resolveDefaultSession"}
    /\ IF validateWindowResult(flow[f].resp)
       THEN Return(f, The(flow[f].win)) /\ UNCHANGED registry
       ELSE /\ SetRegistry(refreshStaleMaps(flow[f].client))
            /\ Await(f, "create", flow[f].client, flow[f].wdir)
    /\ UNCHANGED app

resumeFocusOrCreate(f) ==
    /\ Answered(f, "validate")
    /\ flow[f].op = "focusOrCreateSessionForPath"
    /\ IF validateWindowResult(flow[f].resp)
       THEN Return(f, The(flow[f].win)) /\ UNCHANGED registry
       ELSE /\ SetRegistry(focusStaleMaps(flow[f].client))
            /\ Await(f, "create", getClientIdFromPath(The(flow[f].path)), flow[f].path)
    /\ UNCHANGED app

resumeValidateWindow(f) ==
    /\ Answered(f, "validate")
    /\ flow[f].op = "validateWindow"
    /\ Return(f, IF validateWindowResult(flow[f].resp) THEN "true" ELSE "false")
    /\ UNCHANGED <<registry, app>>

resumeGetActiveWindowId(f) ==
    /\ Answered(f, "active")
    /\ LET id == getActiveWindowIdResult(flow[f].resp)
       IN  IF flow[f].op = "getActiveWindowId"
           THEN Return(f, IF id = None THEN "null" ELSE The(id))
           ELSE IF id = None THEN Throw(f, "NoWindow") ELSE Return(f, The(id))
    /\ UNCHANGED <<registry, app>>

AwaitTab(f, pc, tabIndex) ==
    /\ flow' = [flow EXCEPT ![f] = [@ EXCEPT !.pc = pc, !.tabIndex = tabIndex,
                                               !.resp = Pending]]
    /\ hist' = [hist EXCEPT ![f] = [@ EXCEPT !.calls = @ + 1, !.closedBy = "",
                                              !.issued = @ \cup {pc}]]
    /\ UNCHANGED lastCall

\* ensureTab after its getTabIndex (listTabs), on its own or inside
\* focusOrCreateTab, which then selects the tab
resumeListTabs(f) ==
    /\ Answered(f, "list")
    /\ IF flow[f].resp.state = "err" THEN Throw(f, "ListFailed")
       ELSE LET existingIndex == getTabIndex(listTabsResult(flow[f].resp), The(flow[f].tabName))
            IN  IF existingIndex # None
                THEN IF flow[f].op = "ensureTab"
                     THEN Return(f, ToString(The(existingIndex)))
                     ELSE AwaitTab(f, "select", existingIndex)
                ELSE AwaitTab(f, "createTab", None)
    /\ UNCHANGED <<registry, app>>

\* ensureTab after its createTab, on its own or inside focusOrCreateTab
resumeCreateTab(f) ==
    /\ Answered(f, "createTab")
    /\ LET tabIndex == createTabResult(flow[f].resp)
       IN  IF tabIndex = None THEN Throw(f, "CreationFailed")
           ELSE IF flow[f].op = "ensureTab"
                THEN Return(f, ToString(The(tabIndex)))
                ELSE AwaitTab(f, "select", tabIndex)
    /\ UNCHANGED <<registry, app>>

\* focusOrCreateTab after selectTab
resumeSelectTab(f) ==
    /\ Answered(f, "select")
    /\ IF flow[f].resp.state = "err" THEN Throw(f, "SelectFailed") /\ UNCHANGED registry
       ELSE /\ IF flow[f].mode = "current" THEN UNCHANGED registry
               ELSE SetRegistry(focusTabMaps(flow[f].client, The(flow[f].win),
                                             The(flow[f].tabIndex), flow[f].tabName))
            /\ Return(f, ToString(The(flow[f].tabIndex)))
    /\ UNCHANGED app

\* closeSessionTab fails: thrown to the caller, or caught by closeTabs, which
\* goes on with its next identifier
closeSessionTabFails(f, err) ==
    IF flow[f].op = "closeSessionTab" THEN ContinueTabOp(f, Throwing(flow[f], err))
    ELSE ContinueTabOp(f, closeTabsLoop(flow[f], flow[f].todo, flow[f].closed))

\* closeSessionTab returns: to the caller, or to closeTabs, which counts the
\* tab as closed and goes on with its next identifier
closeSessionTabReturns(f) ==
    IF flow[f].op = "closeSessionTab" THEN ContinueTabOp(f, Returning(flow[f], "void"))
    ELSE ContinueTabOp(f, closeTabsLoop(flow[f], flow[f].todo, flow[f].closed + 1))

\* resolveTabIndex after its getTabIndex (listTabs): on its own, inside
\* setTabAlias, inside closeSessionTab
resumeResolveTabIndex(f) ==
    /\ Answered(f, "resolve")
    /\ LET tabIndex == IF flow[f].resp.state = "err" THEN None
                       ELSE getTabIndex(listTabsResult(flow[f].resp), The(flow[f].tabId).s)
           err == IF flow[f].resp.state = "err" THEN "ListFailed" ELSE "NotFound"
           rec == [flow[f] EXCEPT !.tabIndex = tabIndex]
       IN  CASE flow[f].op = "resolveTabIndex" ->
                  /\ ContinueTabOp(f, IF tabIndex = None THEN Throwing(rec, err)
                                      ELSE Returning(rec, ToString(The(tabIndex))))
                  /\ UNCHANGED tabAliases
             [] flow[f].op = "setTabAlias" ->
                  IF tabIndex = None
                  THEN ContinueTabOp(f, Throwing(rec, err)) /\ UNCHANGED tabAliases
                  ELSE /\ ContinueTabOp(f, Returning(rec, "void"))
                       /\ tabAliases' = TabManager_setTabAlias(The(flow[f].win),
                                                               The(tabIndex), flow[f].alias)
             [] OTHER ->
                  /\ IF tabIndex = None THEN closeSessionTabFails(f, err)
                     ELSE ContinueTabOp(f, Suspended(rec, "closeTab"))
                  /\ UNCHANGED tabAliases
    /\ UNCHANGED <<sessionWindowMap, sessionPathMap, sessionTabMap, app>>

\* closeSessionTab after closeTab
resumeCloseTab(f) ==
    /\ Answered(f, "closeTab")
    /\ LET currentTabInfo == MapGet(sessionTabMap, flow[f].client)
       IN  IF flow[f].resp.state = "err" THEN closeSessionTabFails(f, "CloseFailed")
           ELSE IF currentTabInfo # None
                   /\ The(currentTabInfo).tabIndex = The(flow[f].tabIndex)
                THEN ContinueTabOp(f, Suspended(flow[f], "relist"))
                ELSE closeSessionTabReturns(f)
    /\ UNCHANGED <<registry, app>>

\* closeSessionTab after the listTabs that follows the close of the tracked tab
resumeRelist(f) ==
    /\ Answered(f, "relist")
    /\ sessionTabMap' = closeSessionTabMaps(flow[f].client, The(flow[f].win), flow[f].resp)
    /\ closeSessionTabReturns(f)
    /\ UNCHANGED <<sessionWindowMap, sessionPathMap, tabAliases, app>>

\* the caller has taken the outcome; the flow is free for the next request
Finish(f) ==
    /\ flow[f].status \in {"returned", "threw"}
    /\ flow' = [flow EXCEPT ![f] = IdleFlow]
    /\ hist' = [hist EXCEPT ![f] = NoHist]
    /\ lastCall' = IF /\ flow[f].status = "returned"
                      /\ \/ flow[f].op = "refreshSession"
                         \/ /\ flow[f].op \in {"createSession", "focusOrCreateSessionForPath"}
                            /\ \E g \in Flows \ {f} :
                                  flow[g].op = flow[f].op /\ flow[g].status = "running"
                   THEN Some([op |-> flow[f].op, client |-> flow[f].client,
                              result |-> flow[f].result])
                   ELSE None
    /\ UNCHANGED <<registry, app>>

----------------------------------------------------------------------------

(* CommandExecutor.executeCommand.  Time is the count of clock steps since  *)
(* the call started; a phase timer that is due fires before the clock      *)
(* moves on; a sleep ends no earlier than asked for.                       *)

\* milliseconds per clock step
TickMs == 50

\* clock steps a call is followed for
MaxElapsed == 8

\* the same while another request works on the tabs of the call's window
MaxTargetElapsed == 1

\* polling loops that can be left running at one time
MaxAbandoned == 1

\* queries an abandoned polling loop is followed for
MaxAbandonedPolls == 2

\* sleep(100) between "is processing" polls
ProcessingPollMs == 100

\* sleep(350) between Process Activity Inspector polls, also what one reading
\* below the threshold adds to belowThresholdTime
InspectPollMs == 350

\* belowThresholdTime at which the shell counts as idle
IdleAfterMs == 1000

\* sleep(200) for the output to settle
SettleMs == 200

\* the least remainingTime
MinRemainingMs == 1000

\* terminal contents the application answers "get contents" with
Buffers == {<<"a">>, <<"a", "\n", "b", "\n", "c", "\n", "d", "\n", "e">>}

\* the calls of executeCommand: a one-line command with a 1 s timeout and no
\* capture, a two-line command with a 2 s timeout and 2 lines of capture
ExecCalls ==
    {[command |-> <<"l", "s">>, timeoutSeconds |-> 1, returnOutputLines |-> 0],
     [command |-> <<"l", "\"", "\n", "s">>, timeoutSeconds |-> 2, returnOutputLines |-> 2]}

\* error messages of a failed osascript, as the pieces the program looks for
ErrorTexts == {<<"iTerm2 got an error", "Invalid key form">>,
               <<"iTerm2 got an error">>,
               <<"Command failed">>}

Max(a, b) == IF a >= b THEN a ELSE b
Min(a, b) == IF a <= b THEN a ELSE b

\* a Phase 1 budget of the whole timeout
processingTimeoutWhole(timeoutMs) == timeoutMs

\* timeoutMs * 0.25
processingTimeout(timeoutMs) == timeoutMs \div 4

\* Math.max(timeoutMs - elapsedTime, 1000)
remainingTime(timeoutMs, elapsedTime) == Max(timeoutMs - elapsedTime, MinRemainingMs)

\* Math.min(remainingTime * 0.93, timeoutMs * 0.7), in whole milliseconds
inputTimeout(timeoutMs, elapsedTime) ==
    Min((remainingTime(timeoutMs, elapsedTime) * 93) \div 100, (timeoutMs * 7) \div 10)

\* buffer.split("\n").length of the trimmed contents
bufferLines(resp) == Len(SplitBy(Trim(resp.out), "\n", <<>>))

\* Array.prototype.slice(start): from start, counted from the end when negative
slice(lines, start) ==
    LET from == IF start < 0 THEN Max(Len(lines) + start, 0) ELSE Min(start, Len(lines))
    IN  SubSeq(lines, from + 1, Len(lines))

\* Array.prototype.join(sep)
RECURSIVE join(_, _)
join(lines, sep) ==
    IF lines = <<>> THEN <<>>
    ELSE IF Len(lines) = 1 THEN Head(lines)
    ELSE Head(lines) \o <<sep>> \o join(Tail(lines), sep)

\* the last returnOutputLines lines only
capturedOutputExact(buffer, returnOutputLines) ==
    join(slice(SplitBy(buffer, "\n", <<>>), -returnOutputLines), "\n")

\* lines.slice(-returnOutputLines - 1).join('\n')
capturedOutput(buffer, returnOutputLines) ==
    join(slice(SplitBy(buffer, "\n", <<>>), -returnOutputLines - 1), "\n")

\* String.prototype.includes on an error message
includes(msg, piece) == \E i \in 1..Len(msg) : msg[i] = piece

\* the catch of isProcessing and of retrieveTtyPath: the error thrown for the
\* channel's message
classified(what, msg, windowId) ==
    IF includes(msg, "Invalid key form") \/ includes(msg, "doesn't understand")
    THEN [err |-> "InvalidWindow", win |-> Some(windowId)]
    ELSE IF includes(msg, "iTerm2 got an error")
         THEN [err |-> "AppleScriptError", win |-> None]
         ELSE [err |-> what, win |-> None]

\* the error executeCommand ends with when its channel call at pc failed with
\* msg: the buffer reads and the write pass the channel's error on as it is
thrownFor(pc, msg, windowId) ==
    CASE pc = "processing" -> classified("ProcessingStatusError", msg, windowId)
      [] pc = "tty" -> classified("TtyPathError", msg, windowId)
      [] OTHER -> [err |-> "CommandFailed", win |-> None]

\* escapeAppleScriptString, and for the characters of the commands also the
\* single-line escapeForAppleScript: backslashes doubled, double quotes escaped
RECURSIVE escapeAppleScriptString(_)
escapeAppleScriptString(cs) ==
    IF cs = <<>> THEN <<>>
    ELSE (IF Head(cs) \in {"\\", "\""} THEN <<"\\", Head(cs)>> ELSE <<Head(cs)>>)
         \o escapeAppleScriptString(Tail(cs))

\* prepareMultilineCommand: the quoted lines joined by " & return & "
RECURSIVE prepareMultilineCommand(_)
prepareMultilineCommand(lines) ==
    <<"\"">> \o escapeAppleScriptString(Head(lines)) \o <<"\"">>
    \o (IF Len(lines) = 1 THEN <<>>
        ELSE <<" & return & ">> \o prepareMultilineCommand(Tail(lines)))

\* `tell tab ${tabIndex + 1} to tell current session` or `tell current session`
sessionTarget(tabIndex) ==
    IF tabIndex # None
    THEN <<"tell tab ", ToString(The(tabIndex) + 1), " to tell current session">>
    ELSE <<"tell current session">>

\* a script that types a single-line command without pressing enter
writeTextScriptTyped(windowId, command, tabIndex) ==
    <<"tell window id ", windowId, " to ">> \o sessionTarget(tabIndex) \o <<" to write text ">>
    \o (IF includes(command, "\n")
        THEN <<"(">> \o prepareMultilineCommand(SplitBy(command, "\n", <<>>)) \o <<")">>
             \o <<" newline YES">>
        ELSE <<"\"">> \o escapeAppleScriptString(command) \o <<"\"">> \o <<" newline NO">>)

\* the script of the submission, for multiline and for single-line commands
writeTextScript(windowId, command, tabIndex) ==
    <<"tell window id ", windowId, " to ">> \o sessionTarget(tabIndex) \o <<" to write text ">>
    \o (IF includes(command, "\n")
        THEN <<"(">> \o prepareMultilineCommand(SplitBy(command, "\n", <<>>)) \o <<")">>
        ELSE <<"\"">> \o escapeAppleScriptString(command) \o <<"\"">>)
    \o <<" newline YES">>

\* the tab a session target names in the application now: the tab at the
\* index, or the window's current tab; "" when there is none
TargetTab(windowId, tabIndex) ==
    IF windowId \notin windows THEN ""
    ELSE LET pos == IF tabIndex = None THEN selectedTab[windowId] ELSE The(tabIndex) + 1
         IN  IF pos \in 1..Len(tabs[windowId]) THEN tabs[windowId][pos] ELSE ""

\* the tab flow f's channel calls name now
Target(f) == TargetTab(The(flow[f].win), flow[f].tabIndex)

\* Date.now() - startTime
Now(f) == flow[f].elapsed * TickMs

\* Phase 1 of the call is under way: its timer runs
InPhase1(f) == flow[f].pc \in {"processing", "sleepProcessing"}

InExecute(f) == NoneDone /\ flow[f].op = "executeCommand" /\ flow[f].status = "running"

\* the timer of the phase the call is in is due
TimerDue(f) ==
    flow[f].budgetMs # None /\ Now(f) - flow[f].phaseStart >= The(flow[f].budgetMs)

\* a sleep that is over as it starts
SleepingNoTime(rec, pc, ms) ==
    [rec EXCEPT !.pc = pc, !.resp = NoResp, !.wake = rec.elapsed * TickMs]

\* the call sleeps for ms milliseconds at pc
Sleeping(rec, pc, ms) ==
    [rec EXCEPT !.pc = pc, !.resp = NoResp, !.wake = rec.elapsed * TickMs + ms]

\* executeCommand goes on in flow state rec
ContinueExec(f, rec) ==
    /\ flow' = [flow EXCEPT ![f] = rec]
    /\ hist' = [hist EXCEPT ![f] =
                   IF rec.status # "running" THEN @
                   ELSE [@ EXCEPT !.issued = @ \cup {rec.pc},
                                  !.reads = IF rec.pc = "after" THEN @ + 1 ELSE @,
                                  !.writes = IF rec.pc = "write" THEN @ + 1 ELSE @,
                                  !.script = IF rec.pc = "write"
                                             THEN Some(writeTextScript(The(rec.win), rec.command,
                                                                       rec.tabIndex))
                                             ELSE @]]
    /\ UNCHANGED lastCall

\* executeCommand ends because its channel call failed
FailExec(f) ==
    LET thrown == thrownFor(flow[f].pc, flow[f].resp.out, The(flow[f].win))
    IN  /\ flow' = [flow EXCEPT ![f] =
                       [Throwing(flow[f], thrown.err) EXCEPT !.errWin = thrown.win]]
        /\ hist' = [hist EXCEPT ![f].failed =
                       Some([pc |-> flow[f].pc, msg |-> flow[f].resp.out])]
        /\ UNCHANGED lastCall

\* the call of executeCommand made while tabs are worked on: a one-line
\* command with a 1 s timeout, no capture and no tab index
TargetCall == [command |-> <<"l", "s">>, timeoutSeconds |-> 1, returnOutputLines |-> 0]

\* executeCommand up to its first channel call, called on behalf of clientId
startExecute(f, clientId, windowId, command, timeoutSeconds, returnOutputLines, tabIndex) ==
    /\ Len(abandoned) < MaxAbandoned
    /\ flow' = [flow EXCEPT ![f] =
                   Suspended([IdleFlow EXCEPT !.op = "executeCommand",
                                              !.client = clientId,
                                              !.win = Some(windowId),
                                              !.command = command,
                                              !.timeoutMs = timeoutSeconds * 1000,
                                              !.returnOutputLines = returnOutputLines,
                                              !.tabIndex = tabIndex],
                             "before")]
    /\ hist' = [hist EXCEPT ![f] =
                   [NoHist EXCEPT !.calls = 1, !.issued = {"before"}, !.reads = 1,
                                  !.target0 = TargetTab(windowId, tabIndex)]]
    /\ lastCall' = None
    /\ UNCHANGED <<registry, app>>

executeCommand(f, windowId, command, timeoutSeconds, returnOutputLines, tabIndex) ==
    /\ Idle(f)
    /\ startExecute(f, "", windowId, command, timeoutSeconds, returnOutputLines, tabIndex)

\* index.ts, write_to_terminal without a tab argument: the window the default
\* session resolution gave is handed to executeCommand
writeToTerminal(f) ==
    /\ flow[f].op = "resolveDefaultSession"
    /\ flow[f].status = "returned"
    /\ startExecute(f, "default", flow[f].result, TargetCall.command,
                    TargetCall.timeoutSeconds, TargetCall.returnOutputLines, None)

\* the clock moves on by one step: up to n steps, and on from there until
\* Phase 1 is over and to the end of a sleep of the later phases
TickUpTo(f, n) ==
    /\ InExecute(f)
    /\ \/ flow[f].elapsed < n
       \/ InPhase1(f)
       \/ flow[f].pc \in {"sleepInspect", "settle"} /\ Now(f) < flow[f].wake
    /\ ~TimerDue(f)
    /\ flow' = [flow EXCEPT ![f].elapsed = @ + 1]
    /\ UNCHANGED <<registry, app, hist, lastCall>>

Tick(f) == TickUpTo(f, MaxElapsed)

\* a timer that rejects the race and takes the polling loop with it
leftRunningNone(rec) == <<>>

\* the polling loop of the phase that Promise.race leaves behind: which loop,
\* whether a query of it is in flight, its accumulator, and the queries it
\* has issued since
leftRunning(rec) ==
    <<[kind |-> IF rec.pc \in {"processing", "sleepProcessing"}
                THEN "processing" ELSE "inspect",
       inFlight |-> rec.pc \in {"processing", "inspect"},
       belowThresholdTime |-> rec.belowThresholdTime,
       polls |-> 0]>>

\* a timer that fires without rejecting the race
PhaseTimeoutLost(f) ==
    /\ InExecute(f)
    /\ TimerDue(f)
    /\ UNCHANGED vars

\* withTimeout's timer fires: Promise.race rejects and executeCommand throws;
\* the promise that lost the race is not cancelled
PhaseTimeout(f) ==
    /\ InExecute(f)
    /\ TimerDue(f)
    /\ ContinueExec(f, IF InPhase1(f)
                        THEN [Throwing(flow[f], "ProcessingTimeout")
                                 EXCEPT !.errMs = The(flow[f].budgetMs)]
                        ELSE [Throwing(flow[f], "CompletionTimeout")
                                 EXCEPT !.errMs = flow[f].timeoutMs])
    /\ abandoned' = abandoned \o leftRunning(flow[f])
    /\ UNCHANGED <<registry, windows, nextWin, tabs, selectedTab>>

\* the application answers a channel call of executeCommand for the tab the
\* call's session target names
AnswerFor(f, resp) ==
    /\ Target(f) # ""
    /\ Answer(f, resp)
    /\ hist' = [hist EXCEPT ![f].addressed = @ \cup {Target(f)}]
    /\ UNCHANGED <<registry, app, lastCall>>

\* "get contents" of the session
AppContents(f) ==
    /\ \E pc \in {"before", "after"} : Awaiting(f, pc)
    /\ \E b \in Buffers : AnswerFor(f, Ok(b \o <<"\n">>))

\* "write text ... newline YES"
AppWriteText(f) ==
    /\ Awaiting(f, "write")
    /\ AnswerFor(f, Ok(<<>>))

\* "get is processing"
AppIsProcessing(f) ==
    /\ Awaiting(f, "processing")
    /\ \E a \in {"true", "false"} : AnswerFor(f, Ok(<<a, "\n">>))

\* "get tty"
AppGetTty(f) ==
    /\ Awaiting(f, "tty")
    /\ AnswerFor(f, Ok(<<"tty", "\n">>))

\* a channel call of executeCommand fails: the window or the tab is gone, the
\* application is not running, ...
AppChannelError(f) ==
    /\ \E pc \in {"before", "write", "processing", "tty", "after"} : Awaiting(f, pc)
    /\ \E msg \in ErrorTexts : Answer(f, [state |-> "err", out |-> msg])
    /\ UNCHANGED <<registry, app, hist, lastCall>>

\* ProcessTracker.getActiveProcess raises an error
InspectorError(f) ==
    /\ Awaiting(f, "inspect")
    /\ Answer(f, Err)
    /\ UNCHANGED <<registry, app, hist, lastCall>>

\* ProcessTracker.getActiveProcess: no foreground process, one below 1% CPU,
\* one at or above it
Inspector(f) ==
    /\ Awaiting(f, "inspect")
    /\ \E a \in {"none", "idle", "busy"} : Answer(f, Ok(<<a>>))
    /\ UNCHANGED <<registry, app, hist, lastCall>>

\* executeCommand after the buffer read that precedes the command
resumeBefore(f) ==
    /\ Answered(f, "before")
    /\ IF flow[f].resp.state = "err"
       THEN FailExec(f)
       ELSE ContinueExec(f, Suspended([flow[f] EXCEPT !.before = bufferLines(flow[f].resp)],
                                       "write"))
    /\ UNCHANGED <<registry, app>>

\* executeCommand after write text: Phase 1 starts its timer and polls
resumeWriteText(f) ==
    /\ Answered(f, "write")
    /\ IF flow[f].resp.state = "err"
       THEN FailExec(f)
       ELSE ContinueExec(f, Suspended([flow[f] EXCEPT
                                           !.phaseStart = Now(f),
                                           !.budgetMs = Some(processingTimeout(flow[f].timeoutMs))],
                                       "processing"))
    /\ UNCHANGED <<registry, app>>

\* waitForProcessingComplete after an isProcessing poll
resumeIsProcessing(f) ==
    /\ Answered(f, "processing")
    /\ LET answer == IF flow[f].resp.state = "err" THEN "err"
                     ELSE IF Join(Trim(flow[f].resp.out)) = "true" THEN "true" ELSE "false"
           thrown == thrownFor("processing", flow[f].resp.out, The(flow[f].win))
           rec == CASE answer = "err" -> [Throwing(flow[f], thrown.err)
                                             EXCEPT !.errWin = thrown.win]
                    [] answer = "true" -> Sleeping(flow[f], "sleepProcessing", ProcessingPollMs)
                    [] OTHER -> Suspended([flow[f] EXCEPT
                                              !.budgetMs = None,
                                              !.inputTimeout = inputTimeout(flow[f].timeoutMs, Now(f))],
                                          "tty")
       IN  /\ flow' = [flow EXCEPT ![f] = rec]
           /\ hist' = [hist EXCEPT ![f] =
                          [@ EXCEPT !.flag = @ \cup {answer},
                                    !.issued = IF answer = "false" THEN @ \cup {"tty"} ELSE @,
                                    !.failed = IF answer = "err"
                                               THEN Some([pc |-> "processing",
                                                          msg |-> flow[f].resp.out])
                                               ELSE @]]
    /\ UNCHANGED <<registry, app, lastCall>>

\* sleep(100) is over: the next isProcessing poll
wakeProcessing(f) ==
    /\ InExecute(f)
    /\ flow[f].pc = "sleepProcessing"
    /\ Now(f) >= flow[f].wake
    /\ ContinueExec(f, Suspended(flow[f], "processing"))
    /\ UNCHANGED <<registry, app>>

\* executeCommand after retrieveTtyPath: Phase 2 starts its timer and polls
resumeGetTty(f) ==
    /\ Answered(f, "tty")
    /\ IF flow[f].resp.state = "err"
       THEN FailExec(f)
       ELSE ContinueExec(f, Suspended([flow[f] EXCEPT
                                           !.phaseStart = Now(f),
                                           !.budgetMs = Some(flow[f].inputTimeout),
                                           !.belowThresholdTime = 0],
                                       "inspect"))
    /\ UNCHANGED <<registry, app>>

\* what the Process Activity Inspector answered, "err" when it raised an error
inspectorAnswer(resp) == IF resp.state = "err" THEN "err" ELSE Join(resp.out)

\* an accumulator that a reading at or above 1% leaves as it is
belowThresholdKept(answer, below) ==
    IF answer = "idle" THEN below + InspectPollMs ELSE below

\* belowThresholdTime after a poll: += 350 below 1% CPU, = 0 at or above it
belowThreshold(answer, below) ==
    IF answer = "idle" THEN below + InspectPollMs
    ELSE IF answer = "busy" THEN 0 ELSE below

\* an inspector whose errors do not count as idleness
returnsTrueFailClosed(answer, below) ==
    answer = "none" \/ (answer = "idle" /\ below >= IdleAfterMs)

\* isWaitingForUserInput returns true at this poll: no foreground process, the
\* accumulator at 1000 ms after a reading below 1%, or an error caught
returnsTrue(answer, below) ==
    \/ answer = "none"
    \/ answer = "idle" /\ below >= IdleAfterMs
    \/ answer = "err"

\* isWaitingForUserInput after a getActiveProcess poll
resumeInspect(f) ==
    /\ Answered(f, "inspect")
    /\ LET answer == inspectorAnswer(flow[f].resp)
           below == belowThreshold(answer, flow[f].belowThresholdTime)
           rec == [flow[f] EXCEPT !.belowThresholdTime = below]
       IN  /\ flow' = [flow EXCEPT ![f] =
                          IF returnsTrue(answer, below)
                          THEN Sleeping([rec EXCEPT !.budgetMs = None], "settle", SettleMs)
                          ELSE Sleeping(rec, "sleepInspect", InspectPollMs)]
           /\ hist' = [hist EXCEPT ![f] =
                          [@ EXCEPT !.inspected = @ \cup {answer},
                                    !.quiet = IF answer = "idle" THEN @ + 1
                                              ELSE IF answer = "busy" THEN 0 ELSE @]]
    /\ UNCHANGED <<registry, app, lastCall>>

\* an abandoned loop takes the answer to the query it has in flight: the
\* "is processing" loop goes on while the flag is true, the inspector loop
\* until isWaitingForUserInput returns true
AbandonedAnswer(i) ==
    /\ NoneDone
    /\ i \in 1..Len(abandoned)
    /\ abandoned[i].inFlight
    /\ LET l == abandoned[i]
       IN  \/ /\ l.kind = "processing"
              /\ \/ abandoned' = [abandoned EXCEPT ![i].inFlight = FALSE]
                 \/ abandoned' = RemoveAt(abandoned, i)
           \/ /\ l.kind = "inspect"
              /\ \E answer \in {"none", "idle", "busy", "err"} :
                    LET below == belowThreshold(answer, l.belowThresholdTime)
                    IN  abandoned' =
                           IF returnsTrue(answer, below) THEN RemoveAt(abandoned, i)
                           ELSE [abandoned EXCEPT ![i].inFlight = FALSE,
                                                  ![i].belowThresholdTime = below]
    /\ UNCHANGED <<registry, windows, nextWin, tabs, selectedTab, flow, hist, lastCall>>

\* the sleep of an abandoned loop is over: it issues its next query
AbandonedPoll(i) ==
    /\ NoneDone
    /\ i \in 1..Len(abandoned)
    /\ ~abandoned[i].inFlight
    /\ abandoned[i].polls < MaxAbandonedPolls
    /\ abandoned' = [abandoned EXCEPT ![i].inFlight = TRUE, ![i].polls = @ + 1]
    /\ UNCHANGED <<registry, windows, nextWin, tabs, selectedTab, flow, hist, lastCall>>

\* sleep(350) is over: the next getActiveProcess poll
wakeInspect(f) ==
    /\ InExecute(f)
    /\ flow[f].pc = "sleepInspect"
    /\ Now(f) >= flow[f].wake
    /\ ContinueExec(f, Suspended(flow[f], "inspect"))
    /\ UNCHANGED <<registry, app>>

\* sleep(200) is over: the buffer read that follows the command
wakeSettle(f) ==
    /\ InExecute(f)
    /\ flow[f].pc = "settle"
    /\ Now(f) >= flow[f].wake
    /\ ContinueExec(f, Suspended(flow[f], "after"))
    /\ UNCHANGED <<registry, app>>

\* executeCommand after the buffer read that follows the command: newLines
resumeAfter(f) ==
    /\ Answered(f, "after")
    /\ IF flow[f].resp.state = "err"
       THEN FailExec(f)
       ELSE LET afterCommandBuffer == Trim(flow[f].resp.out)
                newLines == bufferLines(flow[f].resp) - flow[f].before
                output == IF flow[f].returnOutputLines > 0
                          THEN Some(capturedOutput(afterCommandBuffer,
                                                   flow[f].returnOutputLines))
                          ELSE None
            IN  ContinueExec(f, [Returning(flow[f], ToString(newLines))
                                    EXCEPT !.newLines = newLines, !.output = output,
                                           !.after = afterCommandBuffer])
    /\ UNCHANGED <<registry, app>>

\* One command at a time, in the window of the default session
NextExec ==
    \/ ~hasSession("default") /\ createSession(1, "default", None)
    \/ AppCreateWindow(1)
    \/ resumeCreateSession(1)
    \/ /\ hasSession("default")
       /\ \E c \in ExecCalls :
             executeCommand(1, The(getWindowId("default")), c.command, c.timeoutSeconds,
                            c.returnOutputLines, None)
    \/ Tick(1)
    \/ PhaseTimeout(1)
    \/ \E i \in 1..MaxAbandoned : AbandonedAnswer(i)
    \/ \E i \in 1..MaxAbandoned : AbandonedPoll(i)
    \/ AppContents(1)
    \/ AppWriteText(1)
    \/ AppIsProcessing(1)
    \/ AppGetTty(1)
    \/ Inspector(1)
    \/ AppChannelError(1)
    \/ InspectorError(1)
    \/ resumeBefore(1)
    \/ resumeWriteText(1)
    \/ resumeIsProcessing(1)
    \/ wakeProcessing(1)
    \/ resumeGetTty(1)
    \/ resumeInspect(1)
    \/ wakeInspect(1)
    \/ wakeSettle(1)
    \/ resumeAfter(1)
    \/ Finish(1)

SpecExec == Init /\ [][NextExec]_vars

\* A command in the window of the default session while another request
\* focuses or creates a tab of that window
NextTarget ==
    \/ ~hasSession("default") /\ createSession(1, "default", None)
    \/ AppCreateWindow(1)
    \/ resumeCreateSession(1)
    \/ /\ hasSession("default")
       /\ \E id \in {IdStr("work"), IdNum(0)} : focusOrCreateTab(2, "default", Some(id))
    \/ AppListTabs(2)
    \/ AppCreateTab(2)
    \/ AppSelectTab(2)
    \/ resumeListTabs(2)
    \/ resumeCreateTab(2)
    \/ resumeSelectTab(2)
    \/ /\ hasSession("default")
       /\ executeCommand(1, The(getWindowId("default")), TargetCall.command,
                         TargetCall.timeoutSeconds, TargetCall.returnOutputLines, None)
    \/ TickUpTo(1, MaxTargetElapsed)
    \/ PhaseTimeout(1)
    \/ \E i \in 1..MaxAbandoned : AbandonedAnswer(i)
    \/ \E i \in 1..MaxAbandoned : AbandonedPoll(i)
    \/ AppContents(1)
    \/ AppWriteText(1)
    \/ AppIsProcessing(1)
    \/ AppGetTty(1)
    \/ Inspector(1)
    \/ AppChannelError(1)
    \/ InspectorError(1)
    \/ resumeBefore(1)
    \/ resumeWriteText(1)
    \/ resumeIsProcessing(1)
    \/ wakeProcessing(1)
    \/ resumeGetTty(1)
    \/ resumeInspect(1)
    \/ wakeInspect(1)
    \/ wakeSettle(1)
    \/ resumeAfter(1)
    \/ \E f \in Flows : Finish(f)

SpecTarget == Init /\ [][NextTarget]_vars

\* The default session resolved by index.ts and a session addressed by path,
\* with creations that fail and windows the user closes
NextFallback ==
    \/ resolveDefaultSession(1)
    \/ \E P \in Dirs : focusOrCreateSessionForPath(2, Spell(P))
    \/ \E f \in Flows :
          \/ AppCreateWindow(f)
          \/ AppCreateNothing(f)
          \/ AppExists(f)
          \/ AppError(f)
          \/ resumeCreateSession(f)
          \/ Finish(f)
    \/ AppActiveWindow(1)
    \/ resumeRefreshSession(1)
    \/ resumeFocusOrCreate(2)
    \/ resumeGetActiveWindowId(1)
    \/ \E w \in WindowIds : UserCloseWindow(w)

SpecFallback == Init /\ [][NextFallback]_vars

\* the clock moves and a due timer fires
SpecExecFair ==
    SpecExec /\ WF_vars(Tick(1)) /\ WF_vars(PhaseTimeout(1)) /\ WF_vars(wakeSettle(1))

\* a pending channel or inspector call of flow f returns, with an answer or
\* with an error
CallReturns(f) ==
    \/ AppContents(f)
    \/ AppWriteText(f)
    \/ AppIsProcessing(f)
    \/ AppGetTty(f)
    \/ AppChannelError(f)
    \/ Inspector(f)
    \/ InspectorError(f)

\* the continuation of flow f runs once its call has returned or its sleep
\* is over
Resumes(f) ==
    \/ resumeBefore(f)
    \/ resumeWriteText(f)
    \/ resumeIsProcessing(f)
    \/ wakeProcessing(f)
    \/ resumeGetTty(f)
    \/ resumeInspect(f)
    \/ wakeInspect(f)
    \/ resumeAfter(f)

\* One command at a time, the one-line command with the 1 s timeout
NextLive ==
    \/ ~hasSession("default") /\ createSession(1, "default", None)
    \/ AppCreateWindow(1)
    \/ resumeCreateSession(1)
    \/ /\ hasSession("default")
       /\ executeCommand(1, The(getWindowId("default")), TargetCall.command,
                         TargetCall.timeoutSeconds, TargetCall.returnOutputLines, None)
    \/ TickUpTo(1, MaxTargetElapsed)
    \/ PhaseTimeout(1)
    \/ \E i \in 1..MaxAbandoned : AbandonedAnswer(i)
    \/ \E i \in 1..MaxAbandoned : AbandonedPoll(i)
    \/ CallReturns(1)
    \/ Resumes(1)
    \/ wakeSettle(1)
    \/ Finish(1)

\* the clock moves, timers fire, every call returns and every continuation
\* runs
\* write_to_terminal for the default client, with window creations that fail,
\* while another request finds or creates the session of a directory
NextWrite ==
    \/ resolveDefaultSession(1)
    \/ writeToTerminal(1)
    \/ \E P \in Dirs : focusOrCreateSessionForPath(2, Spell(P))
    \/ \E f \in Flows :
          \/ AppCreateWindow(f)
          \/ AppCreateNothing(f)
          \/ AppExists(f)
          \/ resumeCreateSession(f)
          \/ Finish(f)
    \/ AppActiveWindow(1)
    \/ resumeRefreshSession(1)
    \/ resumeFocusOrCreate(2)
    \/ resumeGetActiveWindowId(1)
    \/ TickUpTo(1, MaxTargetElapsed)
    \/ PhaseTimeout(1)
    \/ \E i \in 1..MaxAbandoned : AbandonedAnswer(i)
    \/ \E i \in 1..MaxAbandoned : AbandonedPoll(i)
    \/ CallReturns(1)
    \/ Resumes(1)
    \/ wakeSettle(1)

SpecWrite == Init /\ [][NextWrite]_vars

SpecLive ==
    /\ Init /\ [][NextLive]_vars
    /\ WF_vars(TickUpTo(1, MaxTargetElapsed))
    /\ WF_vars(PhaseTimeout(1))
    /\ WF_vars(CallReturns(1))
    /\ WF_vars(Resumes(1))
    /\ WF_vars(wakeSettle(1))

----------------------------------------------------------------------------

WorkingDirInputs == {None} \cup {Some(x) : x \in PathInputs \cup {EmptyPath}}

TabIdentifierInputs == {None} \cup {Some(x) : x \in TabIdentifiers}

\* the application, the user, and the continuations of suspended lifecycle
\* operations
LifecycleBackground ==
    \/ \E f \in Flows : AppCreateWindow(f)
    \/ \E f \in Flows : AppCreateNothing(f)
    \/ \E f \in Flows : AppCloseWindow(f)
    \/ \E f \in Flows : AppExists(f)
    \/ \E f \in Flows : AppError(f)
    \/ \E w \in WindowIds : UserCloseWindow(w)
    \/ \E f \in Flows : resumeCreateSession(f)
    \/ \E f \in Flows : resumeEndSession(f)
    \/ \E f \in Flows : resumeRefreshSession(f)
    \/ \E f \in Flows : resumeFocusOrCreate(f)
    \/ \E f \in Flows : Finish(f)

\* the same for the existence queries and the tab operations
QueryTabBackground ==
    \/ \E f \in Flows : AppActiveWindow(f)
    \/ \E f \in Flows : AppSelectTab(f)
    \/ \E f \in Flows : AppListTabs(f)
    \/ \E f \in Flows : AppCreateTab(f)
    \/ \E f \in Flows : resumeValidateWindow(f)
    \/ \E f \in Flows : resumeGetActiveWindowId(f)
    \/ \E f \in Flows : resumeListTabs(f)
    \/ \E f \in Flows : resumeCreateTab(f)
    \/ \E f \in Flows : resumeSelectTab(f)

\* One request at a time: the caller awaits each call before the next.  Tabs
\* are addressed for the default client, the one index.ts passes to
\* focusOrCreateTab.
Next ==
    \/ \E c \in ClientIds, p \in WorkingDirInputs : createSession(1, c, p)
    \/ \E c \in ClientIds : endSession(1, c)
    \/ \E c \in ClientIds : refreshSession(1, c)
    \/ \E p \in PathInputs : focusOrCreateSessionForPath(1, p)
    \/ \E p \in PathInputs \cup {OtherPath} : endSessionByPath(1, p)
    \/ \E w \in WindowIds : validateWindow(1, w)
    \/ getActiveWindowId(1)
    \/ \E c \in NamedClients, id \in TabIdentifierInputs : focusOrCreateTab(1, c, id)
    \/ LifecycleBackground
    \/ QueryTabBackground

Spec == Init /\ [][Next]_vars

\* Overlapping requests: every flow may start createSession, endSession or
\* refreshSession for any client while another flow is suspended
NextConc ==
    \/ \E f \in Flows, c \in ClientIds : createSession(f, c, None)
    \/ \E f \in Flows, c \in ClientIds : endSession(f, c)
    \/ \E f \in Flows, c \in ClientIds : refreshSession(f, c)
    \/ \E f \in Flows : AppCreateWindow(f)
    \/ \E f \in Flows : AppCreateNothing(f)
    \/ \E f \in Flows : AppCloseWindow(f)
    \/ \E f \in Flows : AppExists(f)
    \/ \E f \in Flows : AppError(f)
    \/ \E w \in WindowIds : UserCloseWindow(w)
    \/ \E f \in Flows : resumeCreateSession(f)
    \/ \E f \in Flows : resumeEndSession(f)
    \/ \E f \in Flows : resumeRefreshSession(f)
    \/ \E f \in Flows : Finish(f)

SpecConc == Init /\ [][NextConc]_vars

\* Sessions by path: one request at a time, sessions created for any client
\* under one directory and looked up by it
NextPath ==
    \/ \E c \in ClientIds, P \in Dirs : createSession(1, c, Some(Spell(P)))
    \/ \E P \in Dirs : focusOrCreateSessionForPath(1, Spell(P))
    \/ \E c \in ClientIds : endSession(1, c)
    \/ AppCreateWindowUpTo(1, MaxPathWindows)
    \/ AppCreateNothing(1)
    \/ AppCloseWindow(1)
    \/ AppExists(1)
    \/ AppError(1)
    \/ \E n \in 1..MaxPathWindows : UserCloseWindow(WinId(n))
    \/ resumeCreateSession(1)
    \/ resumeEndSession(1)
    \/ resumeFocusOrCreate(1)
    \/ Finish(1)

SpecPath == Init /\ [][NextPath]_vars

\* tab names, aliases and tab identifiers callers pass to the tab operations
TabNames == {"x", "a|b"}
TabAliases == {"x", "1x"}
TabIds == {IdNum(0), IdNum(1)} \cup {IdStr(x) : x \in TabNames \cup TabAliases}
TabIndexes == {IdNum(0), IdNum(1)}

\* Tabs: one request at a time; tabs found or created by name, given aliases,
\* resolved from identifiers and closed one by one
NextTabs ==
    \/ \E c \in NamedClients : createSession(1, c, None)
    \/ \E w \in WindowIds, id \in TabIds : resolveTabIndex(1, w, id)
    \/ \E w \in WindowIds, n \in TabNames : ensureTab(1, w, n)
    \/ \E c \in NamedClients, id \in TabIndexes, a \in TabAliases :
          setTabAlias(1, c, id, a)
    \/ \E c \in NamedClients, id \in TabIndexes \cup {IdStr("x")} :
          closeSessionTab(1, c, id)
    \/ AppCreateWindow(1)
    \/ AppCreateNothing(1)
    \/ AppListTabs(1)
    \/ AppCreateTab(1)
    \/ AppCloseTab(1)
    \/ AppError(1)
    \/ resumeCreateSession(1)
    \/ resumeListTabs(1)
    \/ resumeCreateTab(1)
    \/ resumeResolveTabIndex(1)
    \/ resumeCloseTab(1)
    \/ Finish(1)

SpecTabs == Init /\ [][NextTabs]_vars

\* the tabs arguments callers pass to closeTabs
TabsArgs == {TabsString("all"), TabsString("All"), TabsString("ALL"), TabsString("0"),
             TabsArray(<<"0", "work">>), TabsArray(<<"all">>)}

\* Sessions and their tabs: one request at a time; the default client's
\* session without a working directory and a directory's session under the
\* client id of its path, as index.ts creates them, are created, refreshed and
\* ended, their current tab chosen, their tabs closed one by one or with their
\* window
NextClose ==
    \/ \E c \in NamedClients : createSession(1, c, None)
    \/ \E P \in Dirs : createSession(1, getClientIdFromPath(Spell(P)), Some(Spell(P)))
    \/ \E c \in ClientIds : endSession(1, c)
    \/ \E c \in ClientIds : refreshSession(1, c)
    \/ \E P \in Dirs : endSessionByPath(1, Spell(P))
    \/ \E c \in ClientIds, id \in {None, Some(IdStr("work"))} :
          focusOrCreateTab(1, c, id)
    \/ \E c \in ClientIds, t \in TabsArgs : closeTabs(1, c, t)
    \/ \E P \in Dirs, t \in TabsArgs : closeTabsByPath(1, Spell(P), t)
    \/ AppCreateWindow(1)
    \/ AppCloseWindow(1)
    \/ AppExists(1)
    \/ AppSelectTab(1)
    \/ AppListTabs(1)
    \/ AppCreateTab(1)
    \/ AppCloseTab(1)
    \/ AppError(1)
    \/ resumeCreateSession(1)
    \/ resumeEndSession(1)
    \/ resumeRefreshSession(1)
    \/ resumeListTabs(1)
    \/ resumeCreateTab(1)
    \/ resumeSelectTab(1)
    \/ resumeResolveTabIndex(1)
    \/ resumeCloseTab(1)
    \/ resumeRelist(1)
    \/ Finish(1)

SpecClose == Init /\ [][NextClose]_vars

\* The tabs of the default session: one request at a time; a tab is focused
\* or created by name or index, given an alias, closed on its own or with
\* others in a list
NextSessionTabs ==
    \/ ~hasSession("default") /\ createSession(1, "default", None)
    \/ \E id \in {IdStr("x"), IdStr("work"), IdNum(1)} :
          focusOrCreateTab(1, "default", Some(id))
    \/ \E id \in TabIndexes : setTabAlias(1, "default", id, "x")
    \/ \E id \in TabIndexes \cup {IdStr("work")} : closeSessionTab(1, "default", id)
    \/ closeTabs(1, "default", TabsArray(<<"0", "1">>))
    \/ AppCreateWindow(1)
    \/ AppSelectTab(1)
    \/ AppListTabs(1)
    \/ AppCreateTabUpTo(1, MaxSessionTabs)
    \/ AppCloseTab(1)
    \/ AppError(1)
    \/ resumeCreateSession(1)
    \/ resumeListTabs(1)
    \/ resumeCreateTab(1)
    \/ resumeSelectTab(1)
    \/ resumeResolveTabIndex(1)
    \/ resumeCloseTab(1)
    \/ resumeRelist(1)
    \/ Finish(1)

SpecSessionTabs == Init /\ [][NextSessionTabs]_vars

\* Sessions addressed by path, as focus_terminal_window does: overlapping
\* requests find or create the session of a directory and focus a tab of it,
\* while the user closes windows
NextFocus ==
    \/ \E f \in Flows, P \in Dirs : focusOrCreateSessionForPath(f, Spell(P))
    \/ \E f \in Flows, P \in Dirs :
          focusOrCreateTab(f, getClientIdFromPath(Spell(P)), Some(IdNum(0)))
    \/ \E f \in Flows :
          \/ AppCreateWindow(f)
          \/ AppExists(f)
          \/ AppSelectTab(f)
          \/ AppError(f)
          \/ resumeCreateSession(f)
          \/ resumeFocusOrCreate(f)
          \/ resumeSelectTab(f)
          \/ Finish(f)
    \/ \E w \in WindowIds : UserCloseWindow(w)

SpecFocus == Init /\ [][NextFocus]_vars

----------------------------------------------------------------------------
(* Properties *)

Done(f) == flow[f].status \in {"returned", "threw"}
Returned(f, op) == flow[f].op = op /\ flow[f].status = "returned"

\* C1 (as stated): whatever other refreshSession, createSession and endSession
\* calls interleave with it, the window id a refreshSession call returns is a
\* window that exists in the application at the moment the call returns.
C1_LiveAtReturn ==
    \A f \in Flows :
        Returned(f, "refreshSession") => flow[f].result \in windows

\* C1 (amended): the window id a refreshSession call returns is a window that
\* existed at the channel's last answer to that call (it was answered to exist,
\* or it was just created), and it still exists when the call returns unless,
\* after that answer, the user closed it by hand or an interleaved endSession
\* of the same window closed it.
C1_LiveUnlessClosedSinceAnswer ==
    \A f \in Flows :
        Returned(f, "refreshSession")
            => \/ flow[f].result \in windows
               \/ hist[f].closedBy \in {"user", "program"}

\* a refreshSession returns a live window it found stale-free while another
\* flow is suspended in a call on the same client
C1_Witness ==
    \E f, g \in Flows :
        /\ f # g
        /\ Returned(f, "refreshSession")
        /\ flow[f].result \in windows
        /\ hist[f].exists = "true"
        /\ flow[g].status = "running"
        /\ flow[g].client = flow[f].client
        /\ flow[g].op \in {"refreshSession", "createSession", "endSession"}

\* C2: when the existence check of a refreshSession call is answered true, the
\* call returns the window registered for the client, issues no other channel
\* call, creates no window, and leaves the client's window, path and
\* current-tab entries as they were; following a returned refreshSession of
\* the same client, with that window not closed in between, it returns the
\* same window id as that call did.
C2_Idempotent ==
    \A f \in Flows :
        flow[f].op = "refreshSession" /\ Done(f) /\ hist[f].exists = "true"
            => /\ flow[f].status = "returned"
               /\ Some(flow[f].result) = hist[f].entry0.w
               /\ hist[f].made = {} /\ hist[f].calls = 1
               /\ Entries(flow[f].client) = hist[f].entry0
               /\ lastCall # None => flow[f].result = The(lastCall).result

\* the second of two consecutive refreshSession calls on a client that has a
\* working path and a current tab returns through the valid branch
C2_Witness ==
    \E f \in Flows :
        /\ Returned(f, "refreshSession")
        /\ hist[f].exists = "true"
        /\ lastCall # None /\ The(lastCall).client = flow[f].client
        /\ hist[f].entry0.p # None
        /\ hist[f].entry0.t # None

\* C3: when the existence check of a refreshSession call is answered false or
\* fails, a call that returns yields the id of a window it just created,
\* different from the stale one, the client is registered to it, and the
\* client's working path (or absence of one) is what it was before the call.
C3_StaleRecreated ==
    \A f \in Flows :
        Returned(f, "refreshSession") /\ hist[f].exists \in {"false", "err"}
            => /\ Some(flow[f].result) # hist[f].entry0.w
               /\ hist[f].made = {flow[f].result}
               /\ getWindowId(flow[f].client) = Some(flow[f].result)
               /\ getSessionPath(flow[f].client) = hist[f].entry0.p

\* a refreshSession of a client with a working path found its window gone and
\* returned
C3_Witness ==
    \E f \in Flows :
        /\ Returned(f, "refreshSession")
        /\ hist[f].exists = "false"
        /\ hist[f].entry0.p # None
        /\ flow[f].result \in windows

\* C4: an endSession call on a client that has a session never throws and,
\* whether the close call succeeded or failed, leaves the client without
\* window, path and current-tab entry: hasSession is false and
\* findSessionByPath of the client's former path finds no session.
C4_EndSessionRemoves ==
    \A f \in Flows :
        flow[f].op = "endSession" /\ Done(f) /\ hist[f].entry0.w # None
            => /\ flow[f].status = "returned"
               /\ Entries(flow[f].client) = NoEntries
               /\ ~hasSession(flow[f].client)
               /\ hist[f].entry0.p # None
                     => findSessionByPath(The(hist[f].entry0.p)) = None

\* an endSession step on a client without a session
EndSessionNoSession(f, c) ==
    /\ flow[f].op = "idle"
    /\ flow'[f].op = "endSession" /\ flow'[f].client = c
    /\ ~MapHas(sessionWindowMap, c)

\* C5: an endSession call on a client that has no session returns at once,
\* without throwing and without a channel call, opens no window, and leaves
\* the three registry tables and the application as they were.
C5_NoSessionNoOp ==
    [][\A f \in Flows, c \in ClientIds :
          EndSessionNoSession(f, c)
              => /\ flow'[f].status = "returned"
                 /\ hist'[f].calls = 0 /\ hist'[f].made = {}
                 /\ UNCHANGED <<registry, app>>]_vars

\* endSession returned for a client without a session while another client
\* has one
C5_Witness ==
    \E f \in Flows :
        /\ Returned(f, "endSession")
        /\ hist[f].entry0.w = None
        /\ hist[f].calls = 0
        /\ sessionWindowMap # <<>>
        /\ sessionPathMap # <<>>

\* the clients recorded for normalized path np
ClientsAt(np) ==
    {sessionPathMap[i][1] : i \in {j \in DOMAIN sessionPathMap : sessionPathMap[j][2] = np}}

\* an endSessionByPath step
EndByPathStarts(f) == flow[f].op = "idle" /\ flow'[f].op = "endSessionByPath"

ExistenceCheckStep(f) ==
    /\ flow'[f].op \in {"validateWindow", "getActiveWindowId"}
    /\ flow'[f] # flow[f]

\* C7: validateWindow never throws; it answers true exactly when the channel
\* answered "true", which the application does only for a window that exists,
\* and false on any channel error.  getActiveWindowId never throws and answers
\* none on a channel error or an empty answer.  No step of either changes a
\* registry table.
C7_ChecksFailClosed ==
    /\ [](\A f \in Flows :
            /\ flow[f].op = "validateWindow" /\ Done(f)
                  => /\ flow[f].status = "returned"
                     /\ flow[f].result \in {"true", "false"}
                     /\ flow[f].result = "true"
                           <=> (flow[f].resp.state = "ok"
                                /\ Join(Trim(flow[f].resp.out)) = "true")
                     /\ flow[f].result = "true" => hist[f].exists = "true"
                     /\ flow[f].resp.state = "err" => flow[f].result = "false"
            /\ flow[f].op = "getActiveWindowId" /\ Done(f)
                  => /\ flow[f].status = "returned"
                     /\ (flow[f].resp.state = "err" \/ Trim(flow[f].resp.out) = <<>>)
                           => flow[f].result = "null"
                     /\ flow[f].result # "null"
                           => flow[f].result = Join(Trim(flow[f].resp.out)))
    /\ [][\A f \in Flows : ExistenceCheckStep(f) => UNCHANGED registry]_vars

\* validateWindow answered false on a channel error for a window that exists
\* and is registered
C7_Witness ==
    \E f \in Flows :
        /\ Returned(f, "validateWindow")
        /\ flow[f].result = "false"
        /\ flow[f].resp.state = "err"
        /\ The(flow[f].win) \in windows
        /\ \E c \in DOMAIN sessionWindowMap : sessionWindowMap[c] = The(flow[f].win)

\* the channel's answer to a create call is unusable
CreateUnusable(f) ==
    flow[f].resp.state = "err" \/ Trim(flow[f].resp.out) = <<>>

\* C8: a createSession call whose channel call fails or answers an empty
\* window id throws CreationFailed and writes nothing: the registry is as it
\* was, so the client gets no window or path entry and keeps the window it
\* had registered.
C8_CreationFails ==
    /\ [](\A f \in Flows :
            flow[f].op = "createSession" /\ Done(f) /\ CreateUnusable(f)
                => /\ flow[f].status = "threw"
                   /\ flow[f].err = "CreationFailed"
                   /\ Entries(flow[f].client) = hist[f].entry0)
    /\ [][\A f \in Flows :
              /\ flow[f].op = "createSession" /\ flow[f].status = "running"
              /\ flow'[f].status # "returned"
              => UNCHANGED registry]_vars

\* createSession threw on an empty answer for a client that keeps its
\* registered window and path
C8_Witness ==
    \E f \in Flows :
        /\ flow[f].op = "createSession" /\ flow[f].status = "threw"
        /\ flow[f].resp.state = "ok"
        /\ hist[f].entry0.w # None /\ hist[f].entry0.p # None
        /\ Entries(flow[f].client) = hist[f].entry0

\* C9: each client id has at most one window id, and each normalized working
\* path is recorded for at most one client id.
C9_OneClientPerPath ==
    /\ \A c \in DOMAIN sessionWindowMap : sessionWindowMap[c] \in WindowIds
    /\ \A i, j \in DOMAIN sessionPathMap :
          i # j => /\ sessionPathMap[i][1] # sessionPathMap[j][1]
                   /\ sessionPathMap[i][2] # sessionPathMap[j][2]

\* all four spellings of every directory yield the same client id
IdsAgree ==
    \A P \in Dirs : \A s, t \in Spellings(P) :
        getClientIdFromPath(s) = getClientIdFromPath(t)

\* the directory that path string s spells
SpelledDirs(s) == {P \in Dirs : s \in Spellings(P)}

\* C10: for every directory P all four spellings yield the same client id and
\* the same findSessionByPath answer; once a createSession given one spelling
\* has returned, findSessionByPath given any spelling finds a session recorded
\* for the path that call recorded; an endSessionByPath given any spelling
\* answers true having removed a session recorded for P, and answers false
\* only if no session is recorded for P.
C10_SpellingsAgree ==
    /\ IdsAgree
    /\ \A P \in Dirs :
          LET found == findSessionByPath(Spell(P))
          IN  \A s \in Spellings(P) : findSessionByPath(s) = found
    /\ \A f \in Flows :
          /\ Returned(f, "createSession") /\ hist[f].raw # None
                => \A P \in SpelledDirs(The(hist[f].raw)) : \A t \in Spellings(P) :
                      /\ findSessionByPath(t) # None
                      /\ getSessionPath(The(findSessionByPath(t))) = Some(Spell(P))
                      /\ getSessionPath(flow[f].client) = Some(Spell(P))
          /\ Returned(f, "endSessionByPath")
                => \A P \in SpelledDirs(The(hist[f].raw)) :
                      IF flow[f].result = "true"
                      THEN /\ hist[f].entry0.p = Some(Spell(P))
                           /\ Entries(flow[f].client) = NoEntries
                      ELSE ClientsAt(Spell(P)) = {}

\* a session recorded under the plain spelling was found and ended by path
\* under the P/../<basename> spelling
C10_Witness ==
    \E f \in Flows :
        /\ Returned(f, "endSessionByPath")
        /\ flow[f].result = "true"
        /\ \E P \in Dirs : /\ hist[f].raw = Some(SpellDotDot(P))
                             /\ hist[f].entry0.p = Some(Spell(P))
        /\ sessionPathMap = <<>>

\* C11: a focusOrCreateSessionForPath call that finds a session registered
\* for the normalized path and is answered that its window exists returns that
\* window and opens none; otherwise a call that returns has opened exactly one
\* window, the one it returns, and findSessionByPath of the path then names a
\* client registered to that window.
C11_ReuseOrCreateOne ==
    \A f \in Flows :
        Returned(f, "focusOrCreateSessionForPath")
            => IF hist[f].exists = "true"
               THEN /\ hist[f].entry0.p = Some(resolve(The(hist[f].raw)))
                    /\ Some(flow[f].result) = hist[f].entry0.w
                    /\ hist[f].made = {}
               ELSE /\ hist[f].made = {flow[f].result}
                    /\ LET c == findSessionByPath(The(hist[f].raw))
                       IN  c # None /\ getWindowId(The(c)) = Some(flow[f].result)

----------------------------------------------------------------------------
\* the Session Registry operations a caller invokes for one client
ClientOps == {"createSession", "refreshSession", "endSession", "endSessionByPath",
              "focusOrCreateTab", "closeTabs", "closeTabsByPath"}

\* C12: every step of a createSession, refreshSession, endSession,
\* endSessionByPath, focusOrCreateTab or closeTabs call made for one client
\* (the client found for the path, for the two operations by path) leaves the
\* window, working-path and current-tab entries of every other client as they
\* were.
C12_OtherClientsUntouched ==
    [][\A f \in Flows :
          flow'[f] # flow[f] /\ flow'[f].op \in ClientOps
              => \A B \in ClientIds :
                    B # flow'[f].client => Entries(B)' = Entries(B)]_vars

\* a closeTabs call for the default client has closed its window and removed
\* its session while the other client holds a window, a path and a current tab
C12_Witness ==
    /\ Returned(1, "closeTabs")
    /\ flow[1].client = "default"
    /\ hist[1].entry0.w # None
    /\ hist[1].entry0.t # None
    /\ Entries("default") = NoEntries
    /\ \E B \in ClientIds \ {"default"} :
          /\ Entries(B).w # None
          /\ Entries(B).p # None
          /\ Entries(B).t # None

----------------------------------------------------------------------------
\* a string that is a numeric literal: decimal digits from end to end
NumericLiteral(s) ==
    Chars(s) # <<>> /\ \A i \in 1..Len(Chars(s)) : IsDigit(Chars(s)[i])

\* the 0-based index of the first of the tabs names that is called name
FirstNamed(names, name) ==
    LET hits == {i \in 1..Len(names) : names[i] = name}
    IN  IF hits = {} THEN None
        ELSE Some((CHOOSE i \in hits : \A j \in hits : i <= j) - 1)

\* C14: a resolveTabIndex call given a number or a numeric literal returns
\* that index with no channel call; given any other string that is an alias in
\* the window it returns the alias's index with no channel call; given any
\* other string it returns only the index of a tab of that name, and it fails
\* with NotFound only when no tab of the window has that name.
C14_ResolutionOrder ==
    \A f \in Flows :
        flow[f].op = "resolveTabIndex" /\ Done(f)
            => LET id == The(flow[f].tabId)
                   byAlias == getTabIndexByAlias(The(flow[f].win), id.s)
                   byName == FirstNamed(hist[f].tabs0, id.s)
               IN  IF id.num \/ NumericLiteral(id.s)
                   THEN /\ flow[f].status = "returned"
                        /\ flow[f].result = (IF id.num THEN ToString(id.n) ELSE id.s)
                        /\ hist[f].calls = 0
                   ELSE IF byAlias # None
                        THEN /\ flow[f].status = "returned"
                             /\ flow[f].result = ToString(The(byAlias))
                             /\ hist[f].calls = 0
                        ELSE /\ flow[f].status = "returned"
                                  => byName # None /\ flow[f].result = ToString(The(byName))
                             /\ flow[f].err = "NotFound" => byName = None

\* the identifier "1x" was resolved in a window where it is the alias of tab 0
C14_Witness ==
    /\ flow[1].op = "resolveTabIndex" /\ Done(1)
    /\ The(flow[1].tabId) = IdStr("1x")
    /\ getTabIndexByAlias(The(flow[1].win), "1x") = Some(0)

\* C15: in the alias table no window has two tab indices that carry the same
\* alias, and every alias recorded for a window resolves, in that window, to
\* the tab index it is recorded for, whatever other windows record.
C15_AliasUniquePerWindow ==
    \A w \in DOMAIN tabAliases :
        \A i \in 1..Len(tabAliases[w]) :
            /\ \A j \in 1..Len(tabAliases[w]) :
                  i # j => tabAliases[w][i][2] # tabAliases[w][j][2]
            /\ getTabIndexByAlias(w, tabAliases[w][i][2]) = Some(tabAliases[w][i][1])

\* the index alias resolved to in window w under the alias table table
ResolvedIn(table, w, alias) ==
    LET m == IF MapHas(table, w) THEN table[w] ELSE <<>>
        hits == {i \in 1..Len(m) : m[i][2] = alias}
    IN  IF hits = {} THEN None
        ELSE Some(m[CHOOSE i \in hits : \A j \in hits : i <= j][1])

\* C16: when a closeSessionTab call has closed the tab at index k of a window,
\* an alias that resolved to k before the call resolves to no tab, an alias
\* that resolved to an index before k resolves to the same index, and an alias
\* that resolved to an index behind k resolves to that index less one, the
\* place its tab has moved to.
C16_AliasesFollowTabs ==
    \A f \in Flows :
        Returned(f, "closeSessionTab")
            => LET w == The(flow[f].win)
                   k == The(flow[f].tabIndex)
               IN  \A a \in TabAliases :
                      LET before == ResolvedIn(hist[f].aliases0, w, a)
                          after == getTabIndexByAlias(w, a)
                      IN  before # None
                             => after = (IF The(before) = k THEN None
                                         ELSE IF The(before) < k THEN before
                                              ELSE Some(The(before) - 1))

\* what listTabs returns for window w as it is now
Listed(w) == listTabsResult(Ok(EncodeTabs(tabs[w], 0) \o <<"\n">>))

\* C17: an ensureTab call that returns has, when the window had a tab of that
\* name, returned the index of the first such tab and created nothing, and
\* otherwise created exactly one tab of that name, behind the others, and
\* returned its index; and the name is then found by getTabIndex at the
\* returned index, so that a second ensureTab returns it and creates nothing.
C17_EnsureTabIdempotent ==
    \A f \in Flows :
        Returned(f, "ensureTab")
            => LET w == The(flow[f].win)
                   name == The(flow[f].tabName)
                   was == FirstNamed(hist[f].tabs0, name)
               IN  /\ w \in windows
                   /\ IF was # None
                      THEN /\ tabs[w] = hist[f].tabs0
                           /\ flow[f].result = ToString(The(was))
                      ELSE /\ tabs[w] = Append(hist[f].tabs0, name)
                           /\ flow[f].result = ToString(Len(hist[f].tabs0))
                   /\ LET again == getTabIndex(Listed(w), name)
                      IN  again # None /\ ToString(The(again)) = flow[f].result

----------------------------------------------------------------------------
\* the operations that write a client's current-tab entry
TabEntryOps == {"focusOrCreateTab", "closeSessionTab", "closeTabs", "closeTabsByPath",
                "endSession", "endSessionByPath", "refreshSession"}

----------------------------------------------------------------------------
\* the string "all" in each letter case callers pass
AllSpelled == {"all", "All", "ALL"}

\* C19: a closeTabs (or closeTabsByPath) call whose tabs argument is the string
\* "all" in any letter case, for a client that has a session, returns success
\* having issued one channel call, the close of the client's window, and no
\* listing, tab resolution or tab close; the client's window, path and
\* current-tab entries are removed, and the window is gone when the close was
\* answered.
C19_AllClosesWindow ==
    \A f \in Flows :
        (/\ Done(f) /\ flow[f].op \in {"closeTabs", "closeTabsByPath"}
         /\ flow[f].tabArg # None /\ ~The(flow[f].tabArg).isArray
         /\ The(flow[f].tabArg).s \in AllSpelled
         /\ hist[f].entry0.w # None)
            => /\ flow[f].status = "returned" /\ flow[f].result = "true"
               /\ hist[f].issued = {"close"} /\ hist[f].calls = 1
               /\ flow[f].win = hist[f].entry0.w
               /\ Entries(flow[f].client) = NoEntries
               /\ flow[f].resp.state = "ok" => The(hist[f].entry0.w) \notin windows

\* closeTabs with "ALL" has closed a window of two tabs for a client that had
\* a current tab
C19_Witness ==
    /\ Returned(1, "closeTabs")
    /\ flow[1].tabArg = Some(TabsString("ALL"))
    /\ Len(hist[1].tabs0) = 2
    /\ hist[1].entry0.t # None
    /\ flow[1].resp.state = "ok"
    /\ tabs = <<>>


\* the calls the later phases of executeCommand make: the device-path query,
\* the Process Activity Inspector poll, the buffer read after the command
LaterPhaseCalls == {"tty", "inspect", "after"}

\* C20: a call of executeCommand that has taken no answer "false" to an "is
\* processing" poll has made no device-path query, no Process Activity
\* Inspector poll and no buffer read after the command, and has not returned;
\* when such a call, with every poll it took answered "true", is over, it has
\* thrown the Phase 1 timeout error, whose message carries a quarter of the
\* timeout; that error is thrown only once a quarter of the timeout has gone
\* by since Phase 1 started; and Phase 1 always comes to an end.
C20_Phase1TimeoutAborts ==
    /\ [](\A f \in Flows :
            flow[f].op = "executeCommand" /\ "false" \notin hist[f].flag =>
              /\ hist[f].issued \cap LaterPhaseCalls = {}
              /\ flow[f].status # "returned"
              /\ ( /\ flow[f].status = "threw"
                    /\ "processing" \in hist[f].issued
                    /\ hist[f].flag \subseteq {"true"} )
                 => /\ flow[f].err = "ProcessingTimeout"
                    /\ flow[f].errMs * 4 = flow[f].timeoutMs)
    /\ [][\A f \in Flows :
            flow[f].status = "running" /\ flow'[f].err = "ProcessingTimeout" =>
              /\ InPhase1(f)
              /\ (Now(f) - flow[f].phaseStart) * 4 >= flow[f].timeoutMs
              /\ flow'[f].status = "threw"]_vars
    /\ \A f \in Flows : InPhase1(f) ~> ~InPhase1(f)

\* a call with a 2 s timeout threw the Phase 1 timeout after polls that
\* answered "true"
C20_Witness ==
    /\ flow[1].op = "executeCommand"
    /\ flow[1].status = "threw"
    /\ flow[1].err = "ProcessingTimeout"
    /\ flow[1].timeoutMs = 2000
    /\ hist[1].flag = {"true"}


\* the step in which flow f takes the answer to a Process Activity Inspector poll
InspectStep(f) ==
    Answered(f, "inspect") /\ flow'[f].pc # "inspect" /\ flow'[f].status = "running"

\* C21: when the Process Activity Inspector raises an error on a poll, the
\* shell is declared idle at that poll: the call goes to the settle delay with
\* the Phase 2 timer out of the way; from the settle delay on no timer runs,
\* and the delay is followed by the buffer read after the command; a call that
\* took an inspector error never throws a timeout, it returns a result unless
\* that buffer read fails.
C21_InspectorFailsOpen ==
    /\ [][\A f \in Flows :
            InspectStep(f) /\ flow[f].resp.state = "err" =>
              /\ flow'[f].pc = "settle"
              /\ flow'[f].status = "running"
              /\ flow'[f].budgetMs = None
              /\ flow'[f].wake = Now(f) + SettleMs]_vars
    /\ [](\A f \in Flows :
            flow[f].op = "executeCommand" /\ "err" \in hist[f].inspected =>
              /\ flow[f].pc \in {"settle", "after", "done"}
              /\ flow[f].budgetMs = None
              /\ flow[f].status = "threw" =>
                    flow[f].err \notin {"ProcessingTimeout", "CompletionTimeout"}
                    /\ "after" \in hist[f].issued)
    /\ \A f \in Flows :
          (flow[f].op = "executeCommand" /\ flow[f].pc = "settle")
             ~> (flow[f].op = "executeCommand" /\ "after" \in hist[f].issued)

\* a call returned a result after an inspector error on its only poll
C21_Witness ==
    /\ flow[1].op = "executeCommand"
    /\ flow[1].status = "returned"
    /\ hist[1].inspected = {"err"}

\* C22: at a poll that reports no foreground process the shell is declared
\* idle; at a poll that reads below 1% CPU the accumulator grows by 350 ms and
\* the shell is declared idle exactly when it has reached 1000 ms; at a poll
\* that reads 1% or more the accumulator goes to zero and the shell is not
\* declared idle; the accumulator is 350 ms times the number of latest
\* readings in a row below 1%.
C22_IdlenessRule ==
    /\ [][\A f \in Flows :
            InspectStep(f) =>
              LET answer == inspectorAnswer(flow[f].resp)
                  idle == flow'[f].pc = "settle"
              IN  /\ answer = "none" => idle
                  /\ answer = "idle" =>
                        /\ flow'[f].belowThresholdTime =
                              flow[f].belowThresholdTime + InspectPollMs
                        /\ idle <=> flow'[f].belowThresholdTime >= IdleAfterMs
                  /\ answer = "busy" =>
                        /\ flow'[f].belowThresholdTime = 0
                        /\ ~idle
                        /\ flow'[f].pc = "sleepInspect"]_vars
    /\ [](\A f \in Flows :
            flow[f].op = "executeCommand" =>
              flow[f].belowThresholdTime = hist[f].quiet * InspectPollMs)

\* the shell was declared idle on readings below 1% CPU that followed a
\* reading at or above it
C22_Witness ==
    /\ flow[1].op = "executeCommand"
    /\ flow[1].pc = "settle"
    /\ hist[1].inspected = {"busy", "idle"}
    /\ flow[1].belowThresholdTime >= IdleAfterMs

\* Phase 2 of the call is under way: its timer runs
InPhase2(f) == flow[f].op = "executeCommand" /\ flow[f].pc \in {"inspect", "sleepInspect"}

\* C23: whatever the timeout and the time gone by when Phase 2 starts, the
\* timeout applied to Phase 2 is at least 1 second and at most 70% of the
\* call's timeout.
C23_Phase2AtLeastOneSecond ==
    \A f \in Flows :
        InPhase2(f) =>
          /\ flow[f].budgetMs # None
          /\ The(flow[f].budgetMs) >= MinRemainingMs
          /\ The(flow[f].budgetMs) * 10 <= flow[f].timeoutMs * 7

\* flow f runs executeCommand and has returned its result
ExecReturned(f) == flow[f].op = "executeCommand" /\ flow[f].status = "returned"

\* C24: the newLines of every result executeCommand returns is 0 or more,
\* also when the buffer read after the command has fewer lines than the one
\* read before it.
C24_NewLinesNotNegative ==
    \A f \in Flows : ExecReturned(f) => flow[f].newLines >= 0

\* the last n lines of a buffer, all of them when it has fewer
LastLines(buffer, n) ==
    LET lines == SplitBy(buffer, "\n", <<>>)
    IN  SubSeq(lines, Len(lines) - Min(n, Len(lines)) + 1, Len(lines))

Submitted(f) ==
    /\ flow[f].op = "executeCommand"
    /\ flow[f].pc # "before"
    /\ hist[f].failed = None \/ The(hist[f].failed).pc # "before"

\* C26: a call of executeCommand that has reached the submission has issued
\* exactly one write text call, no call issues more than one or issues one
\* before the submission, and the script of every write text call, for a
\* single-line and for a multi-line command, ends by asking for the newline.
C26_WriteOnceWithNewline ==
    \A f \in Flows :
        flow[f].op = "executeCommand" =>
          /\ hist[f].writes = IF Submitted(f) THEN 1 ELSE 0
          /\ hist[f].script # None <=> hist[f].writes = 1
          /\ hist[f].script # None => Last(The(hist[f].script)) = " newline YES"

\* a call with a two-line command has submitted it
C26_Witness ==
    /\ ExecReturned(1)
    /\ includes(flow[1].command, "\n")
    /\ hist[1].writes = 1
    /\ includes(The(hist[1].script), " & return & ")

\* the error text tells that the window is gone
WindowGone(msg) == includes(msg, "Invalid key form") \/ includes(msg, "doesn't understand")

\* C27: a call of executeCommand that ended because a channel call failed
\* threw InvalidWindow, naming the window, exactly when the channel's error
\* text tells that the window is gone, whichever channel call it was.
C27_ErrorsClassified ==
    \A f \in Flows :
        ( /\ flow[f].op = "executeCommand"
          /\ flow[f].status = "threw"
          /\ hist[f].failed # None )
        => /\ flow[f].err = "InvalidWindow" <=> WindowGone(The(hist[f].failed).msg)
           /\ flow[f].err = "InvalidWindow" => flow[f].errWin = flow[f].win

\* the steps of executeCommand, as pairs of the place left and the place
\* reached
ExecOrder ==
    {<<"idle", "before">>, <<"before", "write">>, <<"write", "processing">>,
     <<"processing", "sleepProcessing">>, <<"sleepProcessing", "processing">>,
     <<"processing", "tty">>, <<"tty", "inspect">>,
     <<"inspect", "sleepInspect">>, <<"sleepInspect", "inspect">>,
     <<"inspect", "settle">>, <<"settle", "after">>, <<"after", "done">>}

\* the places where executeCommand can end by throwing
ExecThrows ==
    {"before", "write", "processing", "sleepProcessing", "tty", "inspect", "sleepInspect",
     "after"}

\* C29: the steps of a call of executeCommand follow one order: the buffer
\* read before the command, the write, the processing-flag polls, the device
\* path query, the inspector polls, the settle delay, the buffer read after
\* the command, the return; the device path is queried only when a
\* processing-flag poll has answered false; the settle delay is entered only
\* when the shell is declared idle and lasts 200 ms; each buffer read is
\* issued once; and a result is returned only from the second read.
C29_FixedOrder ==
    /\ [][\A f \in Flows :
            (flow'[f].op = "executeCommand" /\ flow'[f].pc # flow[f].pc) =>
              /\ \/ <<flow[f].pc, flow'[f].pc>> \in ExecOrder
                 \/ /\ flow'[f].status = "threw"
                    /\ flow[f].pc \in ExecThrows
              /\ flow'[f].status = "returned" => flow[f].pc = "after"
              /\ flow'[f].pc = "tty" =>
                    Join(Trim(flow[f].resp.out)) = "false" /\ flow[f].resp.state = "ok"
              /\ flow'[f].pc = "settle" =>
                    /\ returnsTrue(inspectorAnswer(flow[f].resp), flow'[f].belowThresholdTime)
                    /\ flow'[f].wake = Now(f) + SettleMs
              /\ flow'[f].pc = "after" => Now(f) >= flow[f].wake]_vars
    /\ [](\A f \in Flows :
            flow[f].op = "executeCommand" =>
              /\ hist[f].reads = IF "after" \in hist[f].issued THEN 2 ELSE 1
              /\ hist[f].writes <= 1
              /\ "tty" \in hist[f].issued => "false" \in hist[f].flag
              /\ flow[f].status = "returned" => "after" \in hist[f].issued)

\* a call returned after polls of the processing flag and of the inspector
\* that had it wait
C29_Witness ==
    /\ ExecReturned(1)
    /\ hist[1].flag = {"true", "false"}
    /\ "busy" \in hist[1].inspected

\* the step in which flow f takes a create answer that names no window
CreationFailsStep(f) ==
    Answered(f, "create") /\ createdWindowId(flow[f].resp) = None /\ flow'[f] # flow[f]

C30_OneTabAddressed ==
    \A f \in Flows :
        flow[f].op = "executeCommand" => hist[f].addressed \subseteq {hist[f].target0}

----------------------------------------------------------------------------
\* C31: a focusOrCreateTab call given a string that, when the call started,
\* was the alias of a tab of the client's window creates no tab, and when it
\* returns it has returned the index of the aliased tab and recorded it as the
\* client's current tab.
C31_AliasOverridesName ==
    \A f \in Flows :
        flow[f].op = "focusOrCreateTab" /\ flow[f].tabName # None
            => LET byAlias == ResolvedIn(hist[f].aliases0, The(flow[f].win),
                                         The(flow[f].tabName))
                   now == MapGet(sessionTabMap, flow[f].client)
               IN  byAlias # None /\ The(byAlias) < Len(hist[f].tabs0)
                      => /\ "createTab" \notin hist[f].issued
                         /\ flow[f].status = "returned"
                              => /\ flow[f].result = ToString(The(byAlias))
                                 /\ now # None /\ The(now).tabIndex = The(byAlias)

\* C32: a polling loop whose executeCommand call was rejected by a phase
\* timer issues no further "is processing" query and no further Process
\* Activity Inspector poll.
C32_TimeoutStopsPolling ==
    \A i \in 1..Len(abandoned) : abandoned[i].polls = 0

\* C40: every call of executeCommand comes to an end, returning a result or
\* throwing an error, whatever the processing flag and the foreground
\* process do, as long as the clock moves, timers fire and every channel and
\* inspector call returns.
C40_EveryCallCompletes ==
    \A f \in Flows :
        (flow[f].op = "executeCommand" /\ flow[f].status = "running")
            ~> (flow[f].op = "executeCommand" /\ Done(f))

\* a call whose foreground process was busy at every poll has ended with the
\* Phase 2 timeout
C40_Witness ==
    /\ flow[1].op = "executeCommand"
    /\ flow[1].status = "threw"
    /\ flow[1].err = "CompletionTimeout"
    /\ hist[1].inspected = {"busy"}

----------------------------------------------------------------------------
\* C33: while no call is in flight, every window the application has open (all
\* of them were opened by createSession) is the registered window of some
\* client.
C33_NoWindowOrphaned ==
    (\A f \in Flows : flow[f].op = "idle")
        => \A w \in windows : \E c \in ClientIds : getWindowId(c) = Some(w)

\* C34: while no call is in flight, every client that has a current-tab
\* record has a registered window, and the record names that window.
C34_TabRecordNamesWindow ==
    (\A f \in Flows : flow[f].op = "idle")
        => \A c \in ClientIds :
              LET t == MapGet(sessionTabMap, c)
              IN  t # None => getWindowId(c) = Some(The(t).windowId)

\* C36: a focusOrCreateSessionForPath call that found no session for its path
\* and returns after an overlapping call for the same path has returned
\* returns the window that call returned, which is the window registered for
\* the path, and has made no window of its own.
C36_OverlappingFocusAgree ==
    \A g \in Flows :
        (/\ Returned(g, "focusOrCreateSessionForPath")
         /\ hist[g].entry0 = NoEntries
         /\ lastCall # None
         /\ The(lastCall).op = "focusOrCreateSessionForPath"
         /\ The(lastCall).client = flow[g].client)
            => /\ flow[g].result = The(lastCall).result
               /\ getWindowId(flow[g].client) = Some(flow[g].result)
               /\ hist[g].made = {}

\* C35: when the application has written a command submitted for the default
\* client into a window, no other client is registered to that window.
C35_DefaultWritesOwnWindow ==
    \A f \in Flows :
        (/\ flow[f].op = "executeCommand" /\ flow[f].client = "default"
         /\ flow[f].pc = "write" /\ flow[f].resp.state = "ok")
            => \A c \in ClientIds \ {"default"} : getWindowId(c) # flow[f].win

\* C39: a refreshSession call that found the registered window stale and then
\* failed to create the replacement leaves the client's recorded working
\* path as it was, so that findSessionByPath still finds a client for it.
C39_PathKeptOnFailure ==
    \A f \in Flows :
        (/\ flow[f].op = "refreshSession" /\ flow[f].status = "threw"
         /\ "validate" \in hist[f].issued
         /\ hist[f].entry0.p # None)
            => /\ getSessionPath(flow[f].client) = hist[f].entry0.p
               /\ findSessionByPath(The(hist[f].entry0.p)) # None

----------------------------------------------------------------------------
\* C37: when a closeSessionTab call has closed the tab at index k and the
\* client's current-tab record named another tab of the window, the record
\* names that same tab afterwards, at the index the tab has moved to; when
\* the record named the closed tab and the tabs were listed again, the record
\* names tab 0 if the window still has tabs and is removed otherwise.
C37_RecordFollowsTab ==
    \A f \in Flows :
        (/\ Returned(f, "closeSessionTab")
         /\ hist[f].entry0.t # None
         /\ The(hist[f].entry0.t).tabIndex < Len(hist[f].tabs0))
            => LET w == The(flow[f].win)
                   k == The(flow[f].tabIndex)
                   j == The(hist[f].entry0.t).tabIndex
                   now == MapGet(sessionTabMap, flow[f].client)
               IN  IF j # k
                   THEN /\ now # None
                        /\ The(now).tabIndex = (IF j > k THEN j - 1 ELSE j)
                   ELSE flow[f].resp.state = "ok"
                           => IF w \in windows
                              THEN now # None /\ The(now).tabIndex = 0
                              ELSE now = None

\* the positions, in the tabs names of window w under the alias table table,
\* of the tabs the identifiers of list denote: a numeric literal its index,
\* an alias its tab, any other string the first tab of that name
DenotedBy(list, names, table, w) ==
    {p \in 1..Len(names) :
        \E i \in 1..Len(list) :
            LET byAlias == ResolvedIn(table, w, list[i])
            IN  IF ParseInt(list[i]) # None THEN The(ParseInt(list[i])) = p - 1
                ELSE IF byAlias # None THEN The(byAlias) = p - 1
                     ELSE FirstNamed(names, list[i]) = Some(p - 1)}

\* the sequence s, whose head is at position p, without its elements at the
\* positions in D
RECURSIVE Without(_, _, _)
Without(s, D, p) ==
    IF s = <<>> THEN <<>>
    ELSE (IF p \in D THEN <<>> ELSE <<Head(s)>>) \o Without(Tail(s), D, p + 1)

\* C38: a closeTabs call given a list of identifiers never throws and reports
\* success exactly when it closed a tab; when it has closed a tab for every
\* identifier of the list, the tabs left in the window are the tabs it had
\* when the call started without those the identifiers denoted then.
C38_ClosesDenotedTabs ==
    \A f \in Flows :
        (flow[f].op = "closeTabs" /\ Done(f) /\ The(flow[f].tabArg).isArray)
            => LET list == The(flow[f].tabArg).list
                   w == The(hist[f].entry0.w)
                   left == IF w \in windows THEN tabs[w] ELSE <<>>
               IN  /\ flow[f].status = "returned"
                   /\ flow[f].result = "true" <=> flow[f].closed > 0
                   /\ (hist[f].entry0.w # None /\ flow[f].closed = Len(list))
                        => left = Without(hist[f].tabs0,
                                          DenotedBy(list, hist[f].tabs0, hist[f].aliases0, w),
                                          1)

====
